---------------------------- MODULE Spec2Model ----------------------------
(***************************************************************************)
(* Local <-> WebContainer file synchronisation: path validation            *)
(* (path-utils.ts), the directory access adapter (local-fs-adapter.ts),    *)
(* the sync manager (index.ts: full sync, exclusion matcher, dual writes), *)
(* the counting pre-pass and tree build of sync-operations.ts, and the     *)
(* permission / sync life cycle of the components that drive it            *)
(* (WorkspaceContext, IDELayout.tsx).                                      *)
(*                                                                         *)
(* Strings are modelled as sequences of one-character strings, so that     *)
(* replace / split / filter / trim are computed, character by character.   *)
(***************************************************************************)
EXTENDS Integers, Sequences, FiniteSets, TLC

VARIABLES
    path,             \* SpecPath: the string handed to validatePath
    vresult,          \* SpecPath: "none" before the call, then the outcome of validatePath
    parsed,           \* SpecPath: the segments parsePathSegments returned for path, once called
    directoryHandle,  \* LocalFSAdapter.directoryHandle: FALSE is null, TRUE is the granted root
    disk,             \* the local directory behind the handle: entry path |-> DirMark or file content
    last,             \* the adapter call that has just settled (NoCall once the caller has taken it)
    written,          \* the latest successful writeFile, and whether deleteFile followed it
    excludePatterns,  \* SyncManager.config.excludePatterns
    status,           \* SyncManager._status
    synced,           \* the syncToWebContainer call that runs or has just settled (NoSync once taken)
    throwingHook,     \* SyncManager.config: the hook that throws when invoked ("none": no hook throws)
    previous,         \* the latest sync that resolved with no failed call since the patterns were set
    booted,           \* isBooted(): the WebContainer is running
    dual,             \* the dual-write call of the SyncManager that has just settled (NoDual once taken)
    ws,               \* the React state and refs of the mounted component (WorkspaceProvider or IDELayout)
    tasks,            \* the async callbacks of the component: where each stands, and what it was answered
    fsa,              \* the browser: the permission of the stored handle, and the permission calls made
    walk,             \* the counting pre-pass and the tree build of one sync, await by await
    overlap           \* calls on one SyncManager that overlap: where each stands, and the WebContainer's files

pathVars == <<path, vresult, parsed>>

adapterVars == <<directoryHandle, disk, last, written>>

syncVars == <<excludePatterns, status, synced, throwingHook, previous>>

dualVars == <<booted, dual>>

workspaceVars == <<ws, tasks, fsa>>

walkVars == <<walk>>

overlapVars == <<overlap>>

vars == <<pathVars, adapterVars, syncVars, dualVars, workspaceVars, walkVars, overlapVars>>

(***************************************************************************)
(* Bounds                                                                  *)
(***************************************************************************)
MaxPathLen == 4

\* Adapter calls take paths of at most MaxSegs segments and the local
\* directory holds at most MaxEntries entries.
MaxSegs == 2

MaxEntries == 3

\* A sync runs over a directory of at most MaxSyncEntries entries nested at
\* most MaxDepth deep, under at most MaxPatterns configured patterns of at
\* most MaxPatternLen characters.
MaxSyncEntries == 2

MaxDepth == 2

MaxPatterns == 1

MaxPatternLen == 4

\* The syncToWebContainer calls that may overlap on one SyncManager
MaxOverlap == 2

(***************************************************************************)
(* Strings                                                                 *)
(***************************************************************************)
\* The characters paths are drawn from: a letter, both separators, the dot,
\* the drive colon and a blank.
PathChars == {"a", "/", "\\", ".", ":", " "}

Letters == {"a", "b", "A"}

Whitespace == {" "}

RECURSIVE SeqsUpTo(_, _)
SeqsUpTo(S, n) ==
    IF n = 0 THEN {<<>>}
    ELSE LET shorter == SeqsUpTo(S, n - 1)
         IN  shorter \cup {Append(s, c) : s \in {t \in shorter : Len(t) = n - 1}, c \in S}

Paths == SeqsUpTo(PathChars, MaxPathLen)

\* The element of a one-element set
Only(S) == CHOOSE x \in S : TRUE

\* String.prototype.trim
RECURSIVE TrimLeft(_)
TrimLeft(s) ==
    IF s = <<>> THEN <<>>
    ELSE IF Head(s) \in Whitespace THEN TrimLeft(Tail(s)) ELSE s

RECURSIVE TrimRight(_)
TrimRight(s) ==
    IF s = <<>> THEN <<>>
    ELSE IF s[Len(s)] \in Whitespace THEN TrimRight(SubSeq(s, 1, Len(s) - 1)) ELSE s

Trim(s) == TrimRight(TrimLeft(s))

\* A path.replace that replaces nothing
KeepSeparators(s) == s

\* path.replace(/\\/g, '/')
NormalizeSeparators(s) == [i \in 1..Len(s) |-> IF s[i] = "\\" THEN "/" ELSE s[i]]

\* String.prototype.split('/'): "a//b" gives <<"a", "", "b">>, "" gives <<"">>
RECURSIVE SplitFrom(_, _, _)
SplitFrom(s, i, cur) ==
    IF i > Len(s) THEN <<cur>>
    ELSE IF s[i] = "/" THEN <<cur>> \o SplitFrom(s, i + 1, <<>>)
    ELSE SplitFrom(s, i + 1, Append(cur, s[i]))

SplitSlash(s) == SplitFrom(s, 1, <<>>)

NonEmpty(s) == Len(s) > 0

\* Array.prototype.join('/')
RECURSIVE JoinSlash(_)
JoinSlash(segs) ==
    IF segs = << >> THEN << >>
    ELSE IF Len(segs) = 1 THEN segs[1]
    ELSE segs[1] \o <<"/">> \o JoinSlash(Tail(segs))

DotDot == <<".", ".">>

(***************************************************************************)
(* path-utils.ts                                                           *)
(***************************************************************************)
\* validatePath with the traversal check done on substrings instead of on
\* whole segments.
validatePathSubstring(p) ==
    IF p = <<>> THEN "INVALID_PATH"
    ELSE IF Len(Trim(p)) = 0 THEN "INVALID_PATH"
    ELSE LET normalized == NormalizeSeparators(p)
         IN  IF normalized[1] = "/" THEN "ABSOLUTE_PATH"
             ELSE IF Len(normalized) > 1 /\ normalized[2] = ":" THEN "ABSOLUTE_PATH"
             ELSE IF \E i \in 1..(Len(normalized) - 1) :
                         normalized[i] = "." /\ normalized[i + 1] = "."
                  THEN "PATH_TRAVERSAL"
                  ELSE "OK"

\* validatePath with the traversal check done before the absolute-path checks.
validatePathTraversalFirst(p) ==
    IF p = <<>> THEN "INVALID_PATH"
    ELSE IF Len(Trim(p)) = 0 THEN "INVALID_PATH"
    ELSE LET normalized == NormalizeSeparators(p)
             segments   == SelectSeq(SplitSlash(normalized), NonEmpty)
         IN  IF \E i \in 1..Len(segments) : segments[i] = DotDot THEN "PATH_TRAVERSAL"
             ELSE IF normalized[1] = "/" THEN "ABSOLUTE_PATH"
             ELSE IF Len(normalized) > 1 /\ normalized[2] = ":" THEN "ABSOLUTE_PATH"
             ELSE "OK"

\* validatePath(path, operation): "OK" when it returns, else the code of the
\* FileSystemError it throws.
validatePath(p) ==
    IF p = <<>> THEN "INVALID_PATH"
    ELSE IF Len(Trim(p)) = 0 THEN "INVALID_PATH"
    ELSE LET normalized == NormalizeSeparators(p)
             segments   == SelectSeq(SplitSlash(normalized), NonEmpty)
         IN  IF normalized[1] = "/" THEN "ABSOLUTE_PATH"
             ELSE IF Len(normalized) > 1 /\ normalized[2] = ":" THEN "ABSOLUTE_PATH"
             ELSE IF \E i \in 1..Len(segments) : segments[i] = DotDot THEN "PATH_TRAVERSAL"
             ELSE "OK"

\* No call of parsePathSegments has returned
NotParsed == [done |-> FALSE, segments |-> << >>]

\* parsePathSegments(path)
parsePathSegments(p) == SelectSeq(SplitSlash(NormalizeSeparators(p)), NonEmpty)


(***************************************************************************)
(* The local directory and the File System Access handle primitives        *)
(***************************************************************************)
DirMark == "<directory>"

EmptyContent == ""

Contents == {"x", "y"}

\* A handle is the location it stands for: the sequence of entry names from
\* the granted root.
RootHandle == << >>

IsDirectory(d, h) == h = RootHandle \/ (h \in DOMAIN d /\ d[h] = DirMark)

IsFile(d, h) == h \in DOMAIN d /\ d[h] # DirMark

IsPrefix(h, q) == Len(h) <= Len(q) /\ SubSeq(q, 1, Len(h)) = h

Children(d, h) == {q \in DOMAIN d : Len(q) = Len(h) + 1 /\ IsPrefix(h, q)}

PutEntry(d, q, v) == [r \in (DOMAIN d) \cup {q} |-> IF r = q THEN v ELSE d[r]]

RemoveTree(d, q) == [r \in {t \in DOMAIN d : ~IsPrefix(q, t)} |-> d[r]]

\* A valid file name: not empty, not `.` or `..`, no path separator.
ValidName(name) ==
    /\ name # << >>
    /\ name # <<".">>
    /\ name # DotDot
    /\ \A i \in 1..Len(name) : name[i] \notin {"/", "\\"}

NoError == [name |-> "none", code |-> "none", cause |-> "none"]

DOMError(n) == [name |-> n, code |-> "none", cause |-> "none"]

\* new FileSystemError(message, code, cause)
FileSystemError(code, cause) ==
    [name  |-> "FileSystemError",
     code  |-> code,
     cause |-> IF cause.name = "FileSystemError" THEN cause.code ELSE cause.name]

\* The running operation: the directory, the adapter's binding, the handle
\* calls made so far (with the error each settled with) and the number of the
\* call that fails with an I/O error (0: none).
Ctx(d, bound, fault) == [disk |-> d, bound |-> bound, calls |-> << >>, fault |-> fault]

Faulted(c) == Len(c.calls) + 1 = c.fault

Settle(c, err, val) == [c |-> c, err |-> err, val |-> val]

Resolves(d, val) == [disk |-> d, err |-> NoError, val |-> val]

Rejects(c, n) == [disk |-> c.disk, err |-> DOMError(n), val |-> << >>]

\* One call on a handle: it is logged, and the directory is as the call leaves it.
HandleCall(c, fn, h, name, outcome) ==
    [c   |-> [c EXCEPT !.disk  = outcome.disk,
                       !.calls = Append(@, [fn |-> fn, on |-> h, name |-> name,
                                            err |-> outcome.err.name])],
     err |-> outcome.err,
     val |-> outcome.val]

\* await: the continuation runs on the value, a rejection propagates
Then(r, K(_, _)) == IF r.err # NoError THEN r ELSE K(r.c, r.val)

\* FileSystemDirectoryHandle.getDirectoryHandle(name, {create})
DirGetDirectoryHandle(c, h, name, create) ==
    LET q == Append(h, name)
    IN  HandleCall(c, "getDirectoryHandle", h, name,
            IF Faulted(c) THEN Rejects(c, "NotReadableError")
            ELSE IF ~ValidName(name) THEN Rejects(c, "TypeError")
            ELSE IF ~IsDirectory(c.disk, h) THEN Rejects(c, "NotFoundError")
            ELSE IF IsDirectory(c.disk, q) THEN Resolves(c.disk, q)
            ELSE IF IsFile(c.disk, q) THEN Rejects(c, "TypeMismatchError")
            ELSE IF create THEN Resolves(PutEntry(c.disk, q, DirMark), q)
            ELSE Rejects(c, "NotFoundError"))

\* FileSystemDirectoryHandle.getFileHandle(name, {create})
DirGetFileHandle(c, h, name, create) ==
    LET q == Append(h, name)
    IN  HandleCall(c, "getFileHandle", h, name,
            IF Faulted(c) THEN Rejects(c, "NotReadableError")
            ELSE IF ~ValidName(name) THEN Rejects(c, "TypeError")
            ELSE IF ~IsDirectory(c.disk, h) THEN Rejects(c, "NotFoundError")
            ELSE IF IsFile(c.disk, q) THEN Resolves(c.disk, q)
            ELSE IF IsDirectory(c.disk, q) THEN Rejects(c, "TypeMismatchError")
            ELSE IF create THEN Resolves(PutEntry(c.disk, q, EmptyContent), q)
            ELSE Rejects(c, "NotFoundError"))

\* FileSystemDirectoryHandle.removeEntry(name, {recursive})
DirRemoveEntry(c, h, name, recursive) ==
    LET q == Append(h, name)
    IN  HandleCall(c, "removeEntry", h, name,
            IF Faulted(c) THEN Rejects(c, "NoModificationAllowedError")
            ELSE IF ~ValidName(name) THEN Rejects(c, "TypeError")
            ELSE IF ~IsDirectory(c.disk, h) THEN Rejects(c, "NotFoundError")
            ELSE IF q \notin DOMAIN c.disk THEN Rejects(c, "NotFoundError")
            ELSE IF ~recursive /\ Children(c.disk, q) # {}
                 THEN Rejects(c, "InvalidModificationError")
            ELSE Resolves(RemoveTree(c.disk, q), << >>))

\* FileSystemDirectoryHandle.entries(), drained by the for-await loop: the
\* set of [name, type] pairs of the directory
DirEntries(c, h) ==
    HandleCall(c, "entries", h, << >>,
        IF Faulted(c) THEN Rejects(c, "NotReadableError")
        ELSE IF ~IsDirectory(c.disk, h) THEN Rejects(c, "NotFoundError")
        ELSE Resolves(c.disk,
                      {[name |-> q[Len(q)],
                        type |-> IF c.disk[q] = DirMark THEN "directory" ELSE "file"] :
                          q \in Children(c.disk, h)}))

\* FileSystemFileHandle.getFile(): a snapshot of the file
FileGetFile(c, f) ==
    HandleCall(c, "getFile", f, << >>,
        IF Faulted(c) THEN Rejects(c, "NotReadableError")
        ELSE IF ~IsFile(c.disk, f) THEN Rejects(c, "NotFoundError")
        ELSE Resolves(c.disk, [file |-> f, data |-> c.disk[f]]))

\* File.text()
FileText(c, snapshot) ==
    HandleCall(c, "text", snapshot.file, << >>,
        IF Faulted(c) THEN Rejects(c, "NotReadableError")
        ELSE Resolves(c.disk, snapshot.data))

\* FileSystemFileHandle.createWritable(): a stream over a swap file that
\* replaces the target when the stream is closed
FileCreateWritable(c, f) ==
    HandleCall(c, "createWritable", f, << >>,
        IF Faulted(c) THEN Rejects(c, "NoModificationAllowedError")
        ELSE IF ~IsFile(c.disk, f) THEN Rejects(c, "NotFoundError")
        ELSE Resolves(c.disk, [file |-> f, data |-> EmptyContent, errored |-> FALSE]))

\* FileSystemWritableFileStream.write(content); val is the stream afterwards
StreamWrite(c, w, content) ==
    HandleCall(c, "write", w.file, << >>,
        IF Faulted(c)
        THEN [disk |-> c.disk, err |-> DOMError("NoModificationAllowedError"),
              val |-> [w EXCEPT !.errored = TRUE]]
        ELSE Resolves(c.disk, [w EXCEPT !.data = content]))

\* FileSystemWritableFileStream.close(): commits the swap file, unless the
\* stream has errored
StreamClose(c, w) ==
    HandleCall(c, "close", w.file, << >>,
        IF Faulted(c) THEN Rejects(c, "NoModificationAllowedError")
        ELSE IF w.errored THEN Rejects(c, "TypeError")
        ELSE IF ~IsDirectory(c.disk, SubSeq(w.file, 1, Len(w.file) - 1))
             THEN Rejects(c, "NotFoundError")
        ELSE Resolves(PutEntry(c.disk, w.file, w.data), << >>))

(***************************************************************************)
(* local-fs-adapter.ts                                                     *)
(***************************************************************************)
NoAccess == FileSystemError("NO_DIRECTORY_ACCESS", NoError)

Throw(c, e) == Settle(c, e, << >>)

\* try { ... } catch (error) { throw H(error) }
Catch(r, H(_)) == IF r.err = NoError THEN r ELSE Throw(r.c, H(r.err))

\* entries.sort((a, b) => a.name.localeCompare(b.name)) over the characters
\* of CharOrder
CharOrder ==
    <<"_", "?", ".", "a", "A", "b", "B", "c", "d", "e", "g", "i", "j", "k", "l", "m",
      "n", "o", "p", "r", "s", "t", "u", "x">>

Rank(ch) == CHOOSE i \in 1..Len(CharOrder) : CharOrder[i] = ch

RECURSIVE NameLess(_, _)
NameLess(x, y) ==
    IF x = << >> THEN y # << >>
    ELSE IF y = << >> THEN FALSE
    ELSE IF Head(x) = Head(y) THEN NameLess(Tail(x), Tail(y))
    ELSE Rank(Head(x)) < Rank(Head(y))

\* entries.sort((a, b) => b.name.localeCompare(a.name))
RECURSIVE SortByNameDescending(_)
SortByNameDescending(es) ==
    IF es = {} THEN << >>
    ELSE LET first == CHOOSE e \in es : \A o \in es \ {e} : NameLess(o.name, e.name)
         IN  <<first>> \o SortByNameDescending(es \ {first})

RECURSIVE SortByName(_)
SortByName(es) ==
    IF es = {} THEN << >>
    ELSE LET first == CHOOSE e \in es : \A o \in es \ {e} : NameLess(e.name, o.name)
         IN  <<first>> \o SortByName(es \ {first})

RECURSIVE WalkFrom(_, _, _, _)
WalkFrom(c, h, segments, create) ==
    IF segments = << >> THEN Settle(c, NoError, h)
    ELSE Then(DirGetDirectoryHandle(c, h, Head(segments), create),
              LAMBDA c2, h2 : WalkFrom(c2, h2, Tail(segments), create))

\* LocalFSAdapter.walkDirectorySegments(segments, create)
walkDirectorySegments(c, segments, create) ==
    IF ~c.bound THEN Throw(c, NoAccess)
    ELSE WalkFrom(c, RootHandle, segments, create)

\* LocalFSAdapter.getFileHandle(path, create)
getFileHandle(c, p, create) ==
    LET segments == parsePathSegments(p)
    IN  IF Len(segments) = 0 THEN Throw(c, FileSystemError("INVALID_PATH", NoError))
        ELSE IF Len(segments) = 1
             THEN IF ~c.bound THEN Throw(c, NoAccess)
                  ELSE DirGetFileHandle(c, RootHandle, segments[1], create)
        ELSE Then(walkDirectorySegments(c, SubSeq(segments, 1, Len(segments) - 1), create),
                  LAMBDA c2, parentDir :
                      DirGetFileHandle(c2, parentDir, segments[Len(segments)], create))

\* LocalFSAdapter._getDirectoryHandle(path)
getDirectoryHandle(c, p) ==
    LET segments == parsePathSegments(p)
    IN  IF Len(segments) = 0 THEN Throw(c, FileSystemError("INVALID_PATH", NoError))
        ELSE IF Len(segments) = 1
             THEN IF ~c.bound THEN Throw(c, NoAccess)
                  ELSE DirGetDirectoryHandle(c, RootHandle, segments[1], FALSE)
        ELSE walkDirectorySegments(c, segments, FALSE)

\* A readFile that resolves its path with { create: true }
readFileCreating(c, p) ==
    Catch(Then(getFileHandle(c, p, TRUE),
               LAMBDA c2, fileHandle :
                   Then(FileGetFile(c2, fileHandle),
                        LAMBDA c3, file : FileText(c3, file))),
          LAMBDA e : FileSystemError("FILE_NOT_FOUND", e))

\* LocalFSAdapter.readFile(path) with the default encoding
readFile(c, p) ==
    LET v == validatePath(p)
    IN  IF v # "OK" THEN Throw(c, FileSystemError(v, NoError))
        ELSE IF ~c.bound THEN Throw(c, NoAccess)
        ELSE Catch(Then(getFileHandle(c, p, FALSE),
                        LAMBDA c2, fileHandle :
                            Then(FileGetFile(c2, fileHandle),
                                 LAMBDA c3, file : FileText(c3, file))),
                   LAMBDA e : IF e.name = "NotFoundError"
                              THEN FileSystemError("FILE_NOT_FOUND", e)
                              ELSE FileSystemError("FILE_READ_FAILED", e))

\* await writable.write(content); await writable.close() -- without the finally
WriteThenCloseNoFinally(c, writable, content) ==
    Then(StreamWrite(c, writable, content),
         LAMBDA c2, w : StreamClose(c2, w))

\* try { await writable.write(content) } finally { await writable.close() }
WriteThenClose(c, writable, content) ==
    LET w  == StreamWrite(c, writable, content)
        cl == StreamClose(w.c, w.val)
    IN  IF cl.err # NoError THEN cl ELSE Settle(cl.c, w.err, << >>)

\* LocalFSAdapter.writeFile(path, content)
writeFile(c, p, content) ==
    LET v == validatePath(p)
    IN  IF v # "OK" THEN Throw(c, FileSystemError(v, NoError))
        ELSE IF ~c.bound THEN Throw(c, NoAccess)
        ELSE Catch(Then(getFileHandle(c, p, TRUE),
                        LAMBDA c2, fileHandle :
                            Then(FileCreateWritable(c2, fileHandle),
                                 LAMBDA c3, writable : WriteThenClose(c3, writable, content))),
                   LAMBDA e : FileSystemError("FILE_WRITE_FAILED", e))

\* LocalFSAdapter.deleteFile(path)
deleteFile(c, p) ==
    LET v == validatePath(p)
    IN  IF v # "OK" THEN Throw(c, FileSystemError(v, NoError))
        ELSE IF ~c.bound THEN Throw(c, NoAccess)
        ELSE Catch(DirRemoveEntry(c, RootHandle, p, FALSE),
                   LAMBDA e : IF e.name = "NotFoundError"
                              THEN FileSystemError("FILE_NOT_FOUND", e)
                              ELSE FileSystemError("FILE_DELETE_FAILED", e))

\* LocalFSAdapter.listDirectory(path); the empty path lists the root
listDirectory(c, p) ==
    LET v == IF p # << >> THEN validatePath(p) ELSE "OK"
    IN  IF v # "OK" THEN Throw(c, FileSystemError(v, NoError))
        ELSE IF ~c.bound THEN Throw(c, NoAccess)
        ELSE Catch(Then(IF p # << >> THEN getDirectoryHandle(c, p)
                                     ELSE Settle(c, NoError, RootHandle),
                        LAMBDA c2, dirHandle :
                            Then(DirEntries(c2, dirHandle),
                                 LAMBDA c3, es : Settle(c3, NoError, SortByName(es)))),
                   LAMBDA e : IF e.name = "NotFoundError"
                              THEN FileSystemError("DIR_NOT_FOUND", e)
                              ELSE FileSystemError("DIR_LIST_FAILED", e))

\* A _createDirectory that walks without { create: true }
createDirectoryNoCreate(c, p) ==
    Then(walkDirectorySegments(c, parsePathSegments(p), FALSE),
         LAMBDA c2, h : Settle(c2, NoError, << >>))

\* LocalFSAdapter._createDirectory(path)
createDirectoryInner(c, p) ==
    LET v        == validatePath(p)
        segments == parsePathSegments(p)
    IN  IF v # "OK" THEN Throw(c, FileSystemError(v, NoError))
        ELSE IF Len(segments) = 0 THEN Throw(c, FileSystemError("INVALID_PATH", NoError))
        ELSE IF Len(segments) = 1
             THEN IF ~c.bound THEN Throw(c, NoAccess)
                  ELSE Then(DirGetDirectoryHandle(c, RootHandle, segments[1], TRUE),
                            LAMBDA c2, h : Settle(c2, NoError, << >>))
        ELSE Then(walkDirectorySegments(c, segments, TRUE),
                  LAMBDA c2, h : Settle(c2, NoError, << >>))

\* LocalFSAdapter.createDirectory(path)
createDirectory(c, p) ==
    Catch(createDirectoryInner(c, p), LAMBDA e : FileSystemError("DIR_CREATE_FAILED", e))

\* LocalFSAdapter.deleteDirectory(path)
deleteDirectory(c, p) ==
    IF ~c.bound THEN Throw(c, NoAccess)
    ELSE Catch(DirRemoveEntry(c, RootHandle, p, TRUE),
               LAMBDA e : IF e.name = "NotFoundError"
                          THEN FileSystemError("DIR_NOT_FOUND", e)
                          ELSE FileSystemError("DIR_DELETE_FAILED", e))

\* `${path}/${entry.name}`
ChildPath(p, name) == p \o <<"/">> \o name

\* rename's lookup of oldPath: as a file on the root handle, else as a
\* directory on the root handle, else PATH_NOT_FOUND
RenameLookup(c, oldPath) ==
    LET asFile == Then(DirGetFileHandle(c, RootHandle, oldPath, FALSE),
                       LAMBDA c2, fileHandle :
                           Then(FileGetFile(c2, fileHandle),
                                LAMBDA c3, file : FileText(c3, file)))
    IN  IF asFile.err = NoError
        THEN Settle(asFile.c, NoError, [isDirectory |-> FALSE, content |-> asFile.val])
        ELSE LET asDir == DirGetDirectoryHandle(asFile.c, RootHandle, oldPath, FALSE)
             IN  IF asDir.err = NoError
                 THEN Settle(asDir.c, NoError, [isDirectory |-> TRUE, content |-> EmptyContent])
                 ELSE Throw(asDir.c, FileSystemError("PATH_NOT_FOUND", NoError))

RECURSIVE rename(_, _, _)
RECURSIVE RenameEntries(_, _, _, _)

\* for (const entry of entries) { ... } of rename's directory branch
RenameEntries(c, oldPath, newPath, entries) ==
    IF entries = << >> THEN Settle(c, NoError, << >>)
    ELSE LET entry        == Head(entries)
             oldChildPath == ChildPath(oldPath, entry.name)
             newChildPath == ChildPath(newPath, entry.name)
             copied ==
                 IF entry.type = "directory"
                 THEN rename(c, oldChildPath, newChildPath)
                 ELSE Then(readFile(c, oldChildPath),
                           LAMBDA c2, fileContent : writeFile(c2, newChildPath, fileContent))
         IN  Then(copied, LAMBDA c2, u : RenameEntries(c2, oldPath, newPath, Tail(entries)))

\* LocalFSAdapter.rename(oldPath, newPath)
rename(c, oldPath, newPath) ==
    LET vOld == validatePath(oldPath)
        vNew == validatePath(newPath)
    IN  IF vOld # "OK" THEN Throw(c, FileSystemError(vOld, NoError))
        ELSE IF vNew # "OK" THEN Throw(c, FileSystemError(vNew, NoError))
        ELSE IF ~c.bound THEN Throw(c, NoAccess)
        ELSE Catch(
                Then(RenameLookup(c, oldPath),
                     LAMBDA c2, src :
                         Then(IF src.isDirectory
                              THEN Then(createDirectoryInner(c2, newPath),
                                        LAMBDA c3, u :
                                            Then(listDirectory(c3, oldPath),
                                                 LAMBDA c4, entries :
                                                     RenameEntries(c4, oldPath, newPath, entries)))
                              ELSE writeFile(c2, newPath, src.content),
                              LAMBDA c5, u : IF src.isDirectory
                                             THEN deleteDirectory(c5, oldPath)
                                             ELSE deleteFile(c5, oldPath))),
                LAMBDA e : IF e.name = "FileSystemError" THEN e
                           ELSE FileSystemError("RENAME_FAILED", e))

(***************************************************************************)
(* index.ts: SyncManager                                                   *)
(***************************************************************************)
\* The exclusion patterns of a SyncManager constructed without any:
\* `.git` and `node_modules`
DefaultExcludePatterns ==
    << <<".", "g", "i", "t">>,
       <<"n", "o", "d", "e", "_", "m", "o", "d", "u", "l", "e", "s">> >>

\* new SyncError(message, code, filePath, cause)
SyncError(code) == [name |-> "SyncError", code |-> code, cause |-> "none"]

\* The characters that pattern.replace(/[.+^${}()|[\]\\]/g, '\\$&') escapes
RegexEscaped == {".", "+", "^", "$", "{", "}", "(", ")", "|", "[", "]", "\\"}

\* The case folding of the 'i' flag
LowerCase(ch) == CASE ch = "A" -> "a" [] ch = "B" -> "b" [] OTHER -> ch

Includes(s, ch) == \E i \in 1..Len(s) : s[i] = ch

StartsWith(s, prefix) == Len(prefix) <= Len(s) /\ SubSeq(s, 1, Len(prefix)) = prefix

\* new RegExp(`^${regexPattern}$`, 'i') of the pattern after both replaces,
\* read character by character: an escaped or ordinary character is a
\* literal atom, `*` has become `.*`, and `?`, which neither replace touches,
\* is the quantifier of the atom before it (then its lazy marker); with
\* nothing left to quantify the constructor throws a SyntaxError.
RECURSIVE RegExpAtoms(_, _)
RegExpAtoms(atoms, rest) ==
    IF rest = << >> THEN [ok |-> TRUE, atoms |-> atoms]
    ELSE LET ch == Head(rest)
         IN  IF ch = "*"
             THEN RegExpAtoms(Append(atoms, [ch |-> "any", q |-> "*"]), Tail(rest))
             ELSE IF ch = "?" /\ ch \notin RegexEscaped
             THEN IF atoms = << >> THEN [ok |-> FALSE, atoms |-> << >>]
                  ELSE LET n == Len(atoms)
                       IN  IF atoms[n].q = "1"
                           THEN RegExpAtoms([atoms EXCEPT ![n].q = "?"], Tail(rest))
                           ELSE IF atoms[n].q \in {"?", "*"}
                           THEN RegExpAtoms([atoms EXCEPT ![n].q = "lazy"], Tail(rest))
                           ELSE [ok |-> FALSE, atoms |-> << >>]
             ELSE RegExpAtoms(Append(atoms, [ch |-> ch, q |-> "1"]), Tail(rest))

\* regex.test(s) for the anchored, case-insensitive expression
RECURSIVE RegExpTest(_, _)
RegExpTest(atoms, s) ==
    IF atoms = << >> THEN s = << >>
    ELSE LET a   == Head(atoms)
             one == s # << >> /\ (a.ch = "any" \/ LowerCase(a.ch) = LowerCase(Head(s)))
         IN  IF a.q = "1" THEN one /\ RegExpTest(Tail(atoms), Tail(s))
             ELSE IF a.ch = "any"
             THEN RegExpTest(Tail(atoms), s) \/ (one /\ RegExpTest(atoms, Tail(s)))
             ELSE RegExpTest(Tail(atoms), s) \/ (one /\ RegExpTest(Tail(atoms), Tail(s)))

\* isExcluded without the exact-match branch: only `*` patterns exclude
isExcludedGlobsOnly(patterns, p, name) ==
    IF \E i \in 1..Len(patterns) :
           /\ Includes(patterns[i], "*")
           /\ RegExpAtoms(<< >>, patterns[i]).ok
           /\ \/ RegExpTest(RegExpAtoms(<< >>, patterns[i]).atoms, name)
              \/ RegExpTest(RegExpAtoms(<< >>, patterns[i]).atoms, p)
    THEN "true" ELSE "false"

\* SyncManager.isExcluded(path, name): "true", "false", or "SyntaxError" when
\* compiling a pattern throws
RECURSIVE isExcluded(_, _, _)
isExcluded(patterns, p, name) ==
    IF patterns = << >> THEN "false"
    ELSE LET pattern == Head(patterns)
             re      == RegExpAtoms(<< >>, pattern)
             hit     ==
                 IF Includes(pattern, "*")
                 THEN IF ~re.ok THEN "SyntaxError"
                      ELSE IF RegExpTest(re.atoms, name) \/ RegExpTest(re.atoms, p)
                           THEN "true" ELSE "false"
                 ELSE IF name = pattern \/ p = pattern \/ StartsWith(p, pattern \o <<"/">>)
                      THEN "true" ELSE "false"
         IN  IF hit = "false" THEN isExcluded(Tail(patterns), p, name) ELSE hit

\* SyncManager.readFileContent(path, filename): no name of the model carries a
\* binary extension, so the file is read as text
readFileContent(c, p, filename) == readFile(c, p)

\* A sync that goes on counting in the SyncResult of the sync before it
CarriedResult == previous.result

\* The SyncResult a sync starts from
NewResult == [success |-> TRUE, totalFiles |-> 0, syncedFiles |-> 0, failedFiles |-> << >>]

\* A FileSystemTree, flattened: the path of each node |-> DirMark or contents
EmptyTree == << >>

\* The running sync: the adapter context, the shared SyncResult, the number
\* of times each hook was invoked, and the number of readFileContent calls
\* that rejected
SyncState(c, throws) ==
    [c |-> c, result |-> NewResult, onError |-> 0, onProgress |-> 0, onComplete |-> 0,
     failedReads |-> 0, throws |-> throws, steps |-> << >>, mounts |-> << >>]

\* A mount that is handed an empty tree whatever was built
MountedEmpty(st, tree) ==
    [st EXCEPT !.steps = Append(@, "mount"), !.mounts = Append(@, EmptyTree)]

\* await boot() and await this.buildFileSystemTree('', result) are entered
Stepped(st, step) == [st EXCEPT !.steps = Append(@, step)]

\* await mount(tree) is entered
Mounted(st, tree) ==
    [st EXCEPT !.steps = Append(@, "mount"), !.mounts = Append(@, tree)]

\* What a throwing hook throws
HookError == DOMError("Error")

\* tree[name] = { directory: subtree }
PutDirectory(tree, name, subtree) ==
    [q \in (DOMAIN tree) \cup {<<name>>} \cup {<<name>> \o r : r \in DOMAIN subtree} |->
        IF q \in DOMAIN tree /\ q[1] # name THEN tree[q]
        ELSE IF q = <<name>> THEN DirMark
        ELSE subtree[Tail(q)]]

RECURSIVE buildFileSystemTree(_, _, _)
RECURSIVE BuildEntries(_, _, _, _, _)

\* result.totalFiles++ and the progress report that end the loop body
Counted(st) == [st EXCEPT !.result.totalFiles = @ + 1, !.onProgress = @ + 1]

\* tree[entry.name] = { directory: await this.buildFileSystemTree(...) } in
\* its try / catch; sub is the settled recursive call
BuildDirectory(tree, entry, entryPath, sub) ==
    IF sub.err = NoError
    THEN [st   |-> Counted(sub.st), err |-> NoError,
          tree |-> PutDirectory(tree, entry.name, sub.tree)]
    ELSE [st   |-> Counted([sub.st EXCEPT !.result.failedFiles = Append(@, entryPath)]),
          err  |-> NoError,
          tree |-> tree]

\* A catch block of a failed read that also marks the result as failed
FailedReadUnsuccessful(st, rd, entryPath) ==
    [st EXCEPT !.c = rd.c,
               !.result.failedFiles = Append(@, entryPath),
               !.result.success = FALSE,
               !.onError = @ + 1,
               !.failedReads = @ + 1]

\* The catch block of a failed read: failedFiles.push, then onError
FailedRead(st, rd, entryPath) ==
    [st EXCEPT !.c = rd.c,
               !.result.failedFiles = Append(@, entryPath),
               !.onError = @ + 1,
               !.failedReads = @ + 1]

\* tree[entry.name] = { file: { contents } } in its try / catch; rd is the
\* settled readFileContent. An onError that throws leaves the catch block,
\* and the loop, before the entry is counted.
BuildFile(st, tree, entry, entryPath, rd) ==
    IF rd.err = NoError
    THEN [st   |-> Counted([st EXCEPT !.c = rd.c, !.result.syncedFiles = @ + 1]),
          err  |-> NoError,
          tree |-> PutEntry(tree, <<entry.name>>, rd.val)]
    ELSE IF st.throws = "onError"
    THEN [st |-> FailedRead(st, rd, entryPath), err |-> HookError, tree |-> tree]
    ELSE [st |-> Counted(FailedRead(st, rd, entryPath)), err |-> NoError, tree |-> tree]

\* for (const entry of entries) { ... } of buildFileSystemTree
BuildEntries(st, patterns, p, entries, tree) ==
    IF entries = << >> THEN [st |-> st, err |-> NoError, tree |-> tree]
    ELSE LET entry     == Head(entries)
             entryPath == IF p # << >> THEN ChildPath(p, entry.name) ELSE entry.name
         IN  Only({IF excluded = "SyntaxError"
                   THEN [st |-> st, err |-> DOMError("SyntaxError"), tree |-> tree]
                   ELSE IF excluded = "true"
                   THEN BuildEntries(st, patterns, p, Tail(entries), tree)
                   ELSE Only({IF done.err # NoError THEN done
                              ELSE IF done.st.throws = "onProgress"
                              THEN [done EXCEPT !.err = HookError]
                              ELSE BuildEntries(done.st, patterns, p, Tail(entries), done.tree) :
                           done \in
                             IF entry.type = "directory"
                             THEN {BuildDirectory(tree, entry, entryPath, sub) :
                                     sub \in {buildFileSystemTree(st, patterns, entryPath)}}
                             ELSE {BuildFile(st, tree, entry, entryPath, rd) :
                                     rd \in {readFileContent(st.c, entryPath, entry.name)}}}) :
                       excluded \in {isExcluded(patterns, entryPath, entry.name)}})

\* SyncManager.buildFileSystemTree(path, result)
buildFileSystemTree(st, patterns, p) ==
    Only({IF listed.err # NoError
          THEN [st   |-> [st EXCEPT !.c = listed.c, !.onError = @ + 1],
                err  |-> IF st.throws = "onError" THEN HookError
                         ELSE SyncError("FILE_READ_FAILED"),
                tree |-> EmptyTree]
          ELSE BuildEntries([st EXCEPT !.c = listed.c], patterns, p, listed.val, EmptyTree) :
              listed \in {listDirectory(st.c, p)}})

\* What the WebContainer does in a sync: it is booted already, boots, fails to
\* boot, or fails to mount
WebContainer == {"booted", "boots", "bootFails", "mountFails"}

\* What boot() and mount() of the WebContainer module reject with
BootError == DOMError("BootError")

MountError == DOMError("MountError")

\* A catch block that passes the code of whatever it caught
CodeOfCause(e) == e.code

\* error instanceof SyncError ? error.code : 'SYNC_FAILED'
SyncErrorCode(e) == IF e.name = "SyncError" THEN e.code ELSE "SYNC_FAILED"

\* The catch block of syncToWebContainer: the sync rejects, with the
\* SyncError it made (code, and the error it wraps as its cause) or with
\* what onError or onComplete threw
SyncFailed(st, e, treeBuilt, tree, patterns) ==
    [status      |-> "error",
     code        |-> IF st.throws \in {"onError", "onComplete"} THEN "Error"
                     ELSE SyncErrorCode(e),
     cause       |-> IF st.throws \in {"onError", "onComplete"} THEN "none"
                     ELSE IF e.name = "SyncError" THEN e.code ELSE e.name,
     treeBuilt   |-> treeBuilt,
     tree        |-> tree,
     mountCalled |-> treeBuilt,
     steps       |-> st.steps,
     mounts      |-> st.mounts,
     result      |-> [st.result EXCEPT !.success = FALSE],
     onError     |-> st.onError + 1,
     onProgress  |-> st.onProgress,
     onComplete  |-> IF st.throws = "onError" THEN st.onComplete ELSE st.onComplete + 1,
     calls       |-> st.c.calls,
     failedReads |-> st.failedReads,
     faulted     |-> st.c.fault # 0 /\ Len(st.c.calls) >= st.c.fault,
     patterns    |-> patterns]

\* The end of the try block of syncToWebContainer: the tree is mounted
SyncMounted(st, tree, patterns) ==
    [status      |-> "idle",
     code        |-> "OK",
     cause       |-> "none",
     treeBuilt   |-> TRUE,
     tree        |-> tree,
     mountCalled |-> TRUE,
     steps       |-> st.steps,
     mounts      |-> st.mounts,
     result      |-> st.result,
     onError     |-> st.onError,
     onProgress  |-> st.onProgress,
     onComplete  |-> st.onComplete + 1,
     calls       |-> st.c.calls,
     failedReads |-> st.failedReads,
     faulted     |-> st.c.fault # 0 /\ Len(st.c.calls) >= st.c.fault,
     patterns    |-> patterns]

\* this._status = 'idle'; this.config.onComplete?.(result): an onComplete
\* that throws is caught by the catch block of the same call
SyncDone(st, tree, patterns) ==
    IF st.throws = "onComplete"
    THEN SyncFailed([st EXCEPT !.onComplete = @ + 1], HookError, TRUE, tree, patterns)
    ELSE SyncMounted(st, tree, patterns)

\* SyncManager.syncToWebContainer(): the status it leaves, the code it
\* rejects with ("OK" when it resolves), the tree it built (if it came to
\* build one), whether it passed the tree to mount, the SyncResult, the
\* hooks it invoked and the handle calls it made
syncToWebContainer(c, patterns, wc, throws) ==
    IF wc = "bootFails"
    THEN SyncFailed(Stepped(SyncState(c, throws), "boot"), BootError, FALSE, EmptyTree,
                    patterns)
    ELSE Only({IF built.err # NoError
               THEN SyncFailed(built.st, built.err, FALSE, EmptyTree, patterns)
               ELSE IF wc = "mountFails"
               THEN SyncFailed(Mounted(built.st, built.tree), MountError, TRUE, built.tree,
                               patterns)
               ELSE SyncDone(Mounted(built.st, built.tree), built.tree, patterns) :
                   built \in {buildFileSystemTree(
                                 Stepped(IF wc = "booted" THEN SyncState(c, throws)
                                         ELSE Stepped(SyncState(c, throws), "boot"),
                                         "buildFileSystemTree"),
                                 patterns, << >>)}})

NoSync ==
    [status |-> "idle", code |-> "none", cause |-> "none", treeBuilt |-> FALSE,
     tree |-> EmptyTree,
     mountCalled |-> FALSE, steps |-> << >>, mounts |-> << >>,
     result |-> [success |-> TRUE, totalFiles |-> 0, syncedFiles |-> 0, failedFiles |-> << >>],
     onError |-> 0, onProgress |-> 0,
     onComplete |-> 0, calls |-> << >>, failedReads |-> 0, faulted |-> FALSE,
     patterns |-> << >>]

\* The WebContainer file system of getFileSystem(): the calls made on it so
\* far and the number of the call that rejects (0: none)
Sandbox(fault) == [calls |-> << >>, fault |-> fault]

\* fs.mkdir(path, { recursive: true }), fs.writeFile(path, content),
\* fs.rm(path) and fs.rm(path, { recursive: true })
SandboxCall(s, fn, p, arg) ==
    LET fails == Len(s.calls) + 1 = s.fault
    IN  [s   |-> [s EXCEPT !.calls = Append(@, [fn |-> fn, path |-> p, arg |-> arg,
                                                failed |-> fails])],
         err |-> IF fails THEN DOMError("Error") ELSE NoError]

\* A dual write that settled after its local step l: the code it rejected
\* with ("OK" when it resolved), the WebContainer calls it made and the
\* number of times it invoked onError
DualSettled(l, s, code) ==
    [c |-> l.c, localOk |-> l.err = NoError, sandbox |-> s.calls, code |-> code,
     onError |-> IF code = "OK" THEN 0 ELSE 1]

\* try { await fs.rm(...) } catch { /* ignore */ } with the rejection let through
SandboxNotIgnored(r) == r

\* try { await fs.mkdir / fs.rm(...) } catch { /* ignore */ }
SandboxIgnored(r) == [r EXCEPT !.err = NoError]

\* SyncManager.writeFile(path, content)
SyncManagerWriteFile(c, s, isBooted, p, content) ==
    Only({IF l.err # NoError THEN DualSettled(l, s, "FILE_WRITE_FAILED")
          ELSE IF ~isBooted THEN DualSettled(l, s, "OK")
          ELSE LET segments   == SplitSlash(p)
                   parentPath == JoinSlash(SubSeq(segments, 1, Len(segments) - 1))
                   made       == IF Len(segments) > 1
                                 THEN SandboxIgnored(SandboxCall(s, "mkdir", parentPath,
                                                                 "recursive")).s
                                 ELSE s
               IN  Only({DualSettled(l, w.s, IF w.err # NoError THEN "FILE_WRITE_FAILED"
                                               ELSE "OK") :
                           w \in {SandboxCall(made, "writeFile", p, content)}}) :
             l \in {writeFile(c, p, content)}})

\* A deleteFile that removes the file from the WebContainer before it deletes
\* it locally
SandboxFirstDeleteFile(c, s, isBooted, p) ==
    Only({Only({IF l.err # NoError THEN DualSettled(l, w.s, "FILE_WRITE_FAILED")
                ELSE DualSettled(l, w.s, "OK") :
                   l \in {deleteFile(c, p)}}) :
             w \in {IF isBooted THEN SandboxIgnored(SandboxCall(s, "rm", p, ""))
                    ELSE [s |-> s, err |-> NoError]}})

\* SyncManager.deleteFile(path)
SyncManagerDeleteFile(c, s, isBooted, p) ==
    Only({IF l.err # NoError THEN DualSettled(l, s, "FILE_WRITE_FAILED")
          ELSE IF ~isBooted THEN DualSettled(l, s, "OK")
          ELSE Only({DualSettled(l, w.s, IF w.err # NoError THEN "FILE_WRITE_FAILED"
                                          ELSE "OK") :
                       w \in {SandboxIgnored(SandboxCall(s, "rm", p, ""))}}) :
             l \in {deleteFile(c, p)}})

\* SyncManager.createDirectory(path)
SyncManagerCreateDirectory(c, s, isBooted, p) ==
    Only({IF l.err # NoError THEN DualSettled(l, s, "FILE_WRITE_FAILED")
          ELSE IF ~isBooted THEN DualSettled(l, s, "OK")
          ELSE Only({DualSettled(l, w.s, IF w.err # NoError THEN "FILE_WRITE_FAILED"
                                          ELSE "OK") :
                       w \in {SandboxCall(s, "mkdir", p, "recursive")}}) :
             l \in {createDirectory(c, p)}})

\* SyncManager.deleteDirectory(path)
SyncManagerDeleteDirectory(c, s, isBooted, p) ==
    Only({IF l.err # NoError THEN DualSettled(l, s, "FILE_WRITE_FAILED")
          ELSE IF ~isBooted THEN DualSettled(l, s, "OK")
          ELSE Only({DualSettled(l, w.s, IF w.err # NoError THEN "FILE_WRITE_FAILED"
                                          ELSE "OK") :
                       w \in {SandboxIgnored(SandboxCall(s, "rm", p, "recursive"))}}) :
             l \in {deleteDirectory(c, p)}})

NoDual ==
    [op |-> "none", path |-> << >>, content |-> EmptyContent, booted |-> FALSE,
     localOk |-> FALSE, localFaulted |-> FALSE, sandbox |-> << >>, code |-> "none",
     onError |-> 0]

\* A sync that has entered syncToWebContainer and not settled yet
Running == [NoSync EXCEPT !.status = "syncing", !.code = "running"]

(***************************************************************************)
(* WorkspaceProvider (WorkspaceContext) and IDELayout: the permission and  *)
(* sync life cycle of the component that is mounted                        *)
(***************************************************************************)
Components == {"WorkspaceProvider", "IDELayout"}

\* The async callbacks of WorkspaceProvider and of IDELayout
WorkspaceTasks == {"openFolder", "switchFolder", "syncNow", "initSync"}

LayoutTasks == {"restore", "handleOpenFolder"}

TaskNames == WorkspaceTasks \cup LayoutTasks

\* A callback that is not running
IdleTask == [pc |-> "idle", queried |-> "none", ensured |-> "none", picked |-> FALSE]

\* No component is mounted
NoWorkspace ==
    /\ ws = [component |-> "none", directoryHandle |-> "none", permissionState |-> "unknown",
             syncStatus |-> "idle", isOpeningFolder |-> FALSE, syncManagerRef |-> FALSE,
             localAdapterRef |-> "none", unhandled |-> FALSE, effectDue |-> FALSE]
    /\ tasks = [t \in TaskNames |-> IdleTask]
    /\ fsa = [permission |-> "prompt", stored |-> FALSE, calls |-> {}]

\* No walk has started
NoWalk ==
    [phase |-> "idle", frames |-> << >>, inflight |-> {}, open |-> {}, calls |-> {},
     total |-> 0, filesProcessed |-> 0, progress |-> << >>,
     result |-> [totalFiles |-> 0, syncedFiles |-> 0, failedFiles |-> << >>]]

\* A syncToWebContainer call that has not been made
IdleSync == [pc |-> "idle", frames |-> << >>, tree |-> << >>, reading |-> << >>]

\* A SyncManager.writeFile call that has not been made
IdleWrite ==
    [pc |-> "idle", path |-> << >>, content |-> EmptyContent, during |-> {}, within |-> {}]

\* No call is in flight and the WebContainer holds no file
NoOverlap ==
    [sandbox |-> << >>, syncs |-> [k \in 1..MaxOverlap |-> IdleSync], write |-> IdleWrite]

\* A SyncManager as constructed: no sync has run and no hook throws
NewSyncManager ==
    /\ status = "idle"
    /\ synced = NoSync
    /\ throwingHook = "none"
    /\ previous = NoSync
    /\ booted = FALSE
    /\ dual = NoDual

(***************************************************************************)
(* SpecAdapter: calls on one adapter over one local directory.             *)
(* Each action is one awaited call; any single handle call of it may fail  *)
(* with an I/O error.                                                      *)
(***************************************************************************)
Segments == {<< >>, <<"a">>, <<"b">>, DotDot}

\* "", "a", "a/b", "/a", "a/", "../a", "a/..", ...
AdapterPaths == {JoinSlash(segs) : segs \in SeqsUpTo(Segments, MaxSegs)}

NoCall ==
    [op |-> "none", path |-> << >>, newPath |-> << >>, content |-> EmptyContent,
     code |-> "none", cause |-> "none", text |-> EmptyContent, entries |-> << >>,
     calls |-> << >>, faulted |-> FALSE, before |-> << >>]

NothingWritten == [stage |-> "none", path |-> << >>, content |-> EmptyContent]

\* The settled call: its arguments, the code it rejected with ("OK" when it
\* resolved), what it returned, the handle calls it made, whether one of them
\* was made to fail, and the directory as it was before the call.
Settled(op, p, q, content, r, before) ==
    [op       |-> op,
     path     |-> p,
     newPath  |-> q,
     content  |-> content,
     code     |-> IF r.err = NoError THEN "OK" ELSE r.err.code,
     cause    |-> r.err.cause,
     text     |-> IF op = "readFile" /\ r.err = NoError THEN r.val ELSE EmptyContent,
     entries  |-> IF op = "listDirectory" /\ r.err = NoError THEN r.val ELSE << >>,
     calls    |-> r.c.calls,
     faulted  |-> r.c.fault # 0 /\ Len(r.c.calls) >= r.c.fault,
     before   |-> before]

\* The handle calls that can be made to fail: those the call makes when none fails
FaultPoints(r) == 0..Len(r.c.calls)

Fits(r) == Cardinality(DOMAIN r.c.disk) <= MaxEntries

AdapterInit ==
    /\ path = << >>
    /\ vresult = "none"
    /\ parsed = NotParsed
    /\ directoryHandle = FALSE
    /\ disk = << >>
    /\ last = NoCall
    /\ written = NothingWritten
    /\ excludePatterns = DefaultExcludePatterns
    /\ NewSyncManager
    /\ NoWorkspace
    /\ walk = NoWalk
    /\ overlap = NoOverlap

\* LocalFSAdapter.setDirectoryHandle(handle)
SetDirectoryHandle ==
    /\ last = NoCall
    /\ ~directoryHandle
    /\ directoryHandle' = TRUE
    /\ UNCHANGED <<disk, last, written, pathVars, syncVars, dualVars, workspaceVars, walkVars, overlapVars>>

ReadFile ==
    /\ last = NoCall
    /\ \E p \in AdapterPaths :
         \E f \in FaultPoints(readFile(Ctx(disk, directoryHandle, 0), p)) :
            LET r == readFile(Ctx(disk, directoryHandle, f), p)
            IN  /\ Fits(r)
                /\ disk' = r.c.disk
                /\ last' = Settled("readFile", p, << >>, EmptyContent, r, disk)
    /\ UNCHANGED <<directoryHandle, written, pathVars, syncVars, dualVars, workspaceVars, walkVars, overlapVars>>

WriteFile ==
    /\ last = NoCall
    /\ \E p \in AdapterPaths, content \in Contents :
         \E f \in FaultPoints(writeFile(Ctx(disk, directoryHandle, 0), p, content)) :
            LET r == writeFile(Ctx(disk, directoryHandle, f), p, content)
            IN  /\ Fits(r)
                /\ disk' = r.c.disk
                /\ last' = Settled("writeFile", p, << >>, content, r, disk)
                /\ written' = IF r.err = NoError
                              THEN [stage |-> "written", path |-> p, content |-> content]
                              ELSE NothingWritten
    /\ UNCHANGED <<directoryHandle, pathVars, syncVars, dualVars, workspaceVars, walkVars, overlapVars>>

DeleteFile ==
    /\ last = NoCall
    /\ \E p \in AdapterPaths :
         \E f \in FaultPoints(deleteFile(Ctx(disk, directoryHandle, 0), p)) :
            LET r == deleteFile(Ctx(disk, directoryHandle, f), p)
            IN  /\ Fits(r)
                /\ disk' = r.c.disk
                /\ last' = Settled("deleteFile", p, << >>, EmptyContent, r, disk)
                /\ written' = IF written.stage = "written" /\ written.path = p /\ f = 0
                              THEN [written EXCEPT !.stage = "deleted"]
                              ELSE NothingWritten
    /\ UNCHANGED <<directoryHandle, pathVars, syncVars, dualVars, workspaceVars, walkVars, overlapVars>>

ListDirectory ==
    /\ last = NoCall
    /\ \E p \in AdapterPaths :
         \E f \in FaultPoints(listDirectory(Ctx(disk, directoryHandle, 0), p)) :
            LET r == listDirectory(Ctx(disk, directoryHandle, f), p)
            IN  /\ Fits(r)
                /\ disk' = r.c.disk
                /\ last' = Settled("listDirectory", p, << >>, EmptyContent, r, disk)
    /\ written' = NothingWritten
    /\ UNCHANGED <<directoryHandle, pathVars, syncVars, dualVars, workspaceVars, walkVars, overlapVars>>

CreateDirectory ==
    /\ last = NoCall
    /\ \E p \in AdapterPaths :
         \E f \in FaultPoints(createDirectory(Ctx(disk, directoryHandle, 0), p)) :
            LET r == createDirectory(Ctx(disk, directoryHandle, f), p)
            IN  /\ Fits(r)
                /\ disk' = r.c.disk
                /\ last' = Settled("createDirectory", p, << >>, EmptyContent, r, disk)
    /\ written' = NothingWritten
    /\ UNCHANGED <<directoryHandle, pathVars, syncVars, dualVars, workspaceVars, walkVars, overlapVars>>

DeleteDirectory ==
    /\ last = NoCall
    /\ \E p \in AdapterPaths :
         \E f \in FaultPoints(deleteDirectory(Ctx(disk, directoryHandle, 0), p)) :
            LET r == deleteDirectory(Ctx(disk, directoryHandle, f), p)
            IN  /\ Fits(r)
                /\ disk' = r.c.disk
                /\ last' = Settled("deleteDirectory", p, << >>, EmptyContent, r, disk)
    /\ written' = NothingWritten
    /\ UNCHANGED <<directoryHandle, pathVars, syncVars, dualVars, workspaceVars, walkVars, overlapVars>>

Rename ==
    /\ last = NoCall
    /\ \E p \in AdapterPaths, q \in AdapterPaths :
         \E f \in FaultPoints(rename(Ctx(disk, directoryHandle, 0), p, q)) :
            LET r == rename(Ctx(disk, directoryHandle, f), p, q)
            IN  /\ Fits(r)
                /\ disk' = r.c.disk
                /\ last' = Settled("rename", p, q, EmptyContent, r, disk)
    /\ written' = NothingWritten
    /\ UNCHANGED <<directoryHandle, pathVars, syncVars, dualVars, workspaceVars, walkVars, overlapVars>>

\* The caller takes the settled result.
Return ==
    /\ last # NoCall
    /\ last' = NoCall
    /\ UNCHANGED <<directoryHandle, disk, written, pathVars, syncVars, dualVars, workspaceVars, walkVars, overlapVars>>

AdapterNext ==
    \/ SetDirectoryHandle
    \/ ReadFile
    \/ WriteFile
    \/ DeleteFile
    \/ ListDirectory
    \/ CreateDirectory
    \/ DeleteDirectory
    \/ Rename
    \/ Return

SpecAdapter == AdapterInit /\ [][AdapterNext]_vars

(***************************************************************************)
(* SpecPath: validatePath applied to every string over PathChars           *)
(***************************************************************************)
PathInit ==
    /\ path \in Paths
    /\ vresult = "none"
    /\ parsed = NotParsed
    /\ directoryHandle = FALSE
    /\ disk = << >>
    /\ last = NoCall
    /\ written = NothingWritten
    /\ excludePatterns = DefaultExcludePatterns
    /\ NewSyncManager
    /\ NoWorkspace
    /\ walk = NoWalk
    /\ overlap = NoOverlap

Validate ==
    /\ vresult = "none"
    /\ vresult' = validatePath(path)
    /\ UNCHANGED <<path, parsed, adapterVars, syncVars, dualVars, workspaceVars, walkVars, overlapVars>>

\* parsePathSegments(path) is called and returns
ParsePathSegments ==
    /\ parsed = NotParsed
    /\ parsed' = [done |-> TRUE, segments |-> parsePathSegments(path)]
    /\ UNCHANGED <<path, vresult, adapterVars, syncVars, dualVars, workspaceVars, walkVars, overlapVars>>

PathNext == Validate \/ ParsePathSegments

SpecPath == PathInit /\ [][PathNext]_vars

(***************************************************************************)
(* SpecSync: full syncs of one SyncManager over a bound adapter.  Any      *)
(* single handle call of a sync may fail with an I/O error.                *)
(***************************************************************************)
SyncNames == {<<"a">>, <<"b">>, <<"a", "?", "b">>}

SyncPaths == SeqsUpTo(SyncNames, MaxDepth) \ {<< >>}

\* The directories a sync runs over: every entry below the root lies in a
\* directory
SyncDisks ==
    {d \in UNION {[S -> {DirMark, "x"}] :
                     S \in {T \in SUBSET SyncPaths : Cardinality(T) <= MaxSyncEntries}} :
        \A q \in DOMAIN d : IsDirectory(d, SubSeq(q, 1, Len(q) - 1))}

\* The project directory of the default-exclusion scenario: `.git/`,
\* `node_modules/`, `src/index.ts` and `package.json`, with or without
\* content below the two excluded directories
DotGit == <<".", "g", "i", "t">>

NodeModules == <<"n", "o", "d", "e", "_", "m", "o", "d", "u", "l", "e", "s">>

Src == <<"s", "r", "c">>

IndexTs == <<"i", "n", "d", "e", "x", ".", "t", "s">>

PackageJson == <<"p", "a", "c", "k", "a", "g", "e", ".", "j", "s", "o", "n">>

ProjectBase ==
    (<<DotGit>> :> DirMark) @@ (<<NodeModules>> :> DirMark) @@ (<<Src>> :> DirMark)
        @@ (<<Src, IndexTs>> :> "x") @@ (<<PackageJson>> :> "y")

ProjectDisks ==
    {ProjectBase,
     PutEntry(ProjectBase, <<DotGit, <<"a">>>>, "x"),
     PutEntry(ProjectBase, <<NodeModules, <<"a">>>>, "y"),
     PutEntry(PutEntry(ProjectBase, <<DotGit, <<"a">>>>, "x"), <<NodeModules, <<"a">>>>, "y")}

\* The tree the scenario mounts
ProjectTree == (<<Src>> :> DirMark) @@ (<<Src, IndexTs>> :> "x") @@ (<<PackageJson>> :> "y")

PatternChars == {"a", "b", "?", "*"}

Patterns == SeqsUpTo(PatternChars, MaxPatternLen) \ {<< >>}

\* The pattern lists a SyncManager is constructed with
ExcludeLists == {DefaultExcludePatterns} \cup SeqsUpTo(Patterns, MaxPatterns)

\* The pattern lists setExcludePatterns is called with
SetterLists == {<< >>, <<<<"*">>>>, DefaultExcludePatterns}

SyncInit ==
    /\ path = << >>
    /\ vresult = "none"
    /\ parsed = NotParsed
    /\ directoryHandle = TRUE
    /\ disk \in SyncDisks \cup ProjectDisks
    /\ last = NoCall
    /\ written = NothingWritten
    /\ excludePatterns \in ExcludeLists
    /\ NewSyncManager
    /\ NoWorkspace
    /\ walk = NoWalk
    /\ overlap = NoOverlap

\* SyncManager.setExcludePatterns(patterns), between syncs
SetExcludePatterns ==
    /\ synced = NoSync
    /\ \E patterns \in SetterLists :
         /\ patterns # excludePatterns
         /\ excludePatterns' = patterns
    /\ previous' = NoSync
    /\ UNCHANGED <<status, synced, throwingHook, pathVars, adapterVars, dualVars, workspaceVars, walkVars, overlapVars>>

\* SyncManager.syncToWebContainer(), up to its first await
SyncToWebContainer ==
    /\ synced = NoSync
    /\ status' = "syncing"
    /\ synced' = Running
    /\ UNCHANGED <<excludePatterns, throwingHook, previous, pathVars, adapterVars, dualVars, workspaceVars, walkVars, overlapVars>>

\* SyncManager.syncToWebContainer(), from its first await until it settles
SyncSettle ==
    /\ synced = Running
    /\ \E wc \in WebContainer :
         \E f \in IF wc = "booted"
                  THEN 0..Len(syncToWebContainer(Ctx(disk, directoryHandle, 0),
                                                 excludePatterns, wc, throwingHook).calls)
                  ELSE {0} :
            \E r \in {syncToWebContainer(Ctx(disk, directoryHandle, f),
                                         excludePatterns, wc, throwingHook)} :
                /\ status' = r.status
                /\ synced' = r
    /\ UNCHANGED <<excludePatterns, throwingHook, previous, pathVars, adapterVars, dualVars, workspaceVars, walkVars, overlapVars>>

\* The caller takes the settled sync; what it built and returned is kept for
\* the comparison with the next one.
SyncReturn ==
    /\ synced \notin {NoSync, Running}
    /\ synced' = NoSync
    /\ previous' = IF synced.code = "OK" /\ ~synced.faulted
                   THEN [synced EXCEPT !.steps = << >>]
                   ELSE previous
    /\ UNCHANGED <<excludePatterns, status, throwingHook, pathVars, adapterVars, dualVars, workspaceVars, walkVars, overlapVars>>

SyncNext ==
    \/ SetExcludePatterns
    \/ SyncToWebContainer
    \/ SyncSettle
    \/ SyncReturn

SpecSync == SyncInit /\ [][SyncNext]_vars

(***************************************************************************)
(* SpecSyncHooks: full syncs of the project directory by a SyncManager     *)
(* whose onProgress, onError or onComplete hook may throw.                 *)
(***************************************************************************)
ThrowingHooks == {"none", "onProgress", "onError", "onComplete"}

SyncHooksInit ==
    /\ path = << >>
    /\ vresult = "none"
    /\ parsed = NotParsed
    /\ directoryHandle = TRUE
    /\ disk \in ProjectDisks
    /\ last = NoCall
    /\ written = NothingWritten
    /\ excludePatterns \in SetterLists
    /\ status = "idle"
    /\ synced = NoSync
    /\ throwingHook \in ThrowingHooks
    /\ previous = NoSync
    /\ booted = FALSE
    /\ dual = NoDual
    /\ NoWorkspace
    /\ walk = NoWalk
    /\ overlap = NoOverlap

SpecSyncHooks == SyncHooksInit /\ [][SyncNext]_vars

(***************************************************************************)
(* SpecDual: dual writes of one SyncManager over one local directory and   *)
(* the WebContainer file system. Any single handle call of the local step  *)
(* and any single WebContainer call may fail.                              *)
(***************************************************************************)
\* The paths of SpecAdapter, and `a\b`
DualPaths == AdapterPaths \cup {<<"a", "\\", "b">>}

\* The WebContainer calls that can be made to fail: at most two are made
SandboxFaults == 0..2

DualInit ==
    /\ path = << >>
    /\ vresult = "none"
    /\ parsed = NotParsed
    /\ directoryHandle = TRUE
    /\ disk = << >>
    /\ last = NoCall
    /\ written = NothingWritten
    /\ excludePatterns = DefaultExcludePatterns
    /\ status = "idle"
    /\ synced = NoSync
    /\ throwingHook = "none"
    /\ previous = NoSync
    /\ booted \in BOOLEAN
    /\ dual = NoDual
    /\ NoWorkspace
    /\ walk = NoWalk
    /\ overlap = NoOverlap

\* The dual write r of op on p has settled
DualSettles(op, p, content, r) ==
    /\ Cardinality(DOMAIN r.c.disk) <= MaxEntries
    /\ disk' = r.c.disk
    /\ dual' = [op |-> op, path |-> p, content |-> content, booted |-> booted,
                localOk |-> r.localOk,
                localFaulted |-> r.c.fault # 0 /\ Len(r.c.calls) >= r.c.fault,
                sandbox |-> r.sandbox, code |-> r.code, onError |-> r.onError]
    /\ UNCHANGED <<directoryHandle, last, written, booted, pathVars, syncVars, workspaceVars, walkVars, overlapVars>>

\* boot() of the WebContainer, by whoever boots it
Boot ==
    /\ dual = NoDual
    /\ ~booted
    /\ booted' = TRUE
    /\ UNCHANGED <<dual, pathVars, adapterVars, syncVars, workspaceVars, walkVars, overlapVars>>

DualWriteFile ==
    /\ dual = NoDual
    /\ \E p \in DualPaths, content \in Contents, g \in SandboxFaults :
         \E f \in FaultPoints(writeFile(Ctx(disk, directoryHandle, 0), p, content)) :
            \E r \in {SyncManagerWriteFile(Ctx(disk, directoryHandle, f), Sandbox(g),
                                           booted, p, content)} :
                DualSettles("writeFile", p, content, r)

DualDeleteFile ==
    /\ dual = NoDual
    /\ \E p \in DualPaths, g \in SandboxFaults :
         \E f \in FaultPoints(deleteFile(Ctx(disk, directoryHandle, 0), p)) :
            \E r \in {SyncManagerDeleteFile(Ctx(disk, directoryHandle, f), Sandbox(g),
                                            booted, p)} :
                DualSettles("deleteFile", p, EmptyContent, r)

DualCreateDirectory ==
    /\ dual = NoDual
    /\ \E p \in DualPaths, g \in SandboxFaults :
         \E f \in FaultPoints(createDirectory(Ctx(disk, directoryHandle, 0), p)) :
            \E r \in {SyncManagerCreateDirectory(Ctx(disk, directoryHandle, f), Sandbox(g),
                                                 booted, p)} :
                DualSettles("createDirectory", p, EmptyContent, r)

DualDeleteDirectory ==
    /\ dual = NoDual
    /\ \E p \in DualPaths, g \in SandboxFaults :
         \E f \in FaultPoints(deleteDirectory(Ctx(disk, directoryHandle, 0), p)) :
            \E r \in {SyncManagerDeleteDirectory(Ctx(disk, directoryHandle, f), Sandbox(g),
                                                 booted, p)} :
                DualSettles("deleteDirectory", p, EmptyContent, r)

\* The caller takes the settled dual write.
DualReturn ==
    /\ dual # NoDual
    /\ dual' = NoDual
    /\ UNCHANGED <<booted, pathVars, adapterVars, syncVars, workspaceVars, walkVars, overlapVars>>

DualNext ==
    \/ Boot
    \/ DualWriteFile
    \/ DualDeleteFile
    \/ DualCreateDirectory
    \/ DualDeleteDirectory
    \/ DualReturn

SpecDual == DualInit /\ [][DualNext]_vars

(***************************************************************************)
(* SpecWorkspace: the component that is mounted, the user's clicks on it,  *)
(* its effects, and the browser answering its permission calls. Each       *)
(* action is one callback up to its next await.                            *)
(***************************************************************************)
otherVars == <<pathVars, adapterVars, syncVars, dualVars, walkVars, overlapVars>>

\* A callback stands inside syncManager.syncToWebContainer()
SyncPcs == {"building", "mounting"}

PermissionStates == {"granted", "prompt", "denied"}

\* What ensureReadWritePermission(handle) resolves to: 'granted' without a
\* prompt when the permission is granted already, else as the user answers
EnsureResults(permission) ==
    IF permission = "granted" THEN {"granted"} ELSE {"granted", "denied"}

\* if (value): a non-empty string is truthy
Truthy(value) == value # ""

\* performSync(handle) up to `await syncManager.syncToWebContainer()`, and
\* the same lines of IDELayout (setIsSyncing(true), the refs)
performSync(w) ==
    [w EXCEPT !.syncStatus = "syncing", !.syncManagerRef = TRUE,
              !.localAdapterRef = w.directoryHandle, !.effectDue = TRUE]

\* How window.showDirectoryPicker() settles: a directory is selected, the
\* user dismisses the picker, or the browser refuses it
PickerOutcomes == {"selected", "AbortError", "NotAllowedError"}

\* LocalFSAdapter.requestDirectoryAccess(): the code of the error it throws
\* ("OK": it binds the handle and returns it)
requestDirectoryAccess(outcome) ==
    CASE outcome = "selected" -> "OK"
      [] outcome \in {"AbortError", "NotAllowedError"} -> "PERMISSION_DENIED"
      [] OTHER -> "DIRECTORY_ACCESS_FAILED"

\* The catch blocks around the picker: `catch (error) { ... }` catches
\* whatever is thrown (openFolder and switchFolder log all but AbortError)
HandlerCatches(t, error) == TRUE

\* The callback ends without its catch and finally blocks
CancelledNoFinally(w, t, caught) == w

\* The catch and finally blocks of a callback whose picker threw
Cancelled(w, t, caught) ==
    [w EXCEPT !.isOpeningFolder = FALSE,
              !.syncStatus = IF t = "handleOpenFolder" THEN "idle" ELSE @,
              !.unhandled = @ \/ ~caught]

\* A mount-time path that asked for a prompt when the permission is not granted
AfterQueryPrompting(t, state) == IF state = "granted" THEN "building" ELSE "ensure"

\* Where callback t goes with the answer of getPermissionState
AfterQuery(t, state) ==
    IF state = "granted" THEN "building"
    ELSE IF t = "openFolder" THEN "ensure"
    ELSE "idle"

WorkspaceInit ==
    /\ walk = NoWalk
    /\ overlap = NoOverlap
    /\ path = << >>
    /\ vresult = "none"
    /\ parsed = NotParsed
    /\ directoryHandle = FALSE
    /\ disk = << >>
    /\ last = NoCall
    /\ written = NothingWritten
    /\ excludePatterns = DefaultExcludePatterns
    /\ NewSyncManager
    /\ \E component \in Components, stored \in BOOLEAN :
         LET initialHandle == component = "WorkspaceProvider" /\ stored
         IN  /\ ws = [component       |-> component,
                      directoryHandle |-> IF initialHandle THEN "restored" ELSE "none",
                      permissionState |-> IF initialHandle THEN "prompt" ELSE "unknown",
                      syncStatus      |-> "idle",
                      isOpeningFolder |-> FALSE,
                      syncManagerRef  |-> FALSE,
                      localAdapterRef |-> "none",
                      unhandled       |-> FALSE,
                      effectDue       |-> component = "WorkspaceProvider"]
             /\ tasks = [t \in TaskNames |->
                            IF component = "IDELayout" /\ t = "restore"
                            THEN [IdleTask EXCEPT !.pc = "load"]
                            ELSE IdleTask]
             /\ \E permission \in PermissionStates :
                  fsa = [permission |-> permission, stored |-> stored, calls |-> {}]

Started(t, pc) == tasks' = [tasks EXCEPT ![t] = [IdleTask EXCEPT !.pc = pc]]

Finished(t) == tasks' = [tasks EXCEPT ![t] = IdleTask]

Called(fn, t) == [fn |-> fn, by |-> t]

\* WorkspaceProvider.openFolder, up to its first await
OpenFolder ==
    /\ ws.component = "WorkspaceProvider"
    /\ tasks["openFolder"].pc = "idle"
    /\ IF ws.directoryHandle # "none"
       THEN Started("openFolder", "query") /\ UNCHANGED ws
       ELSE Started("openFolder", "pick") /\ ws' = [ws EXCEPT !.isOpeningFolder = TRUE]
    /\ UNCHANGED <<fsa, otherVars>>

\* WorkspaceProvider.switchFolder, up to its first await
SwitchFolder ==
    /\ ws.component = "WorkspaceProvider"
    /\ tasks["switchFolder"].pc = "idle"
    /\ Started("switchFolder", "pick")
    /\ ws' = [ws EXCEPT !.isOpeningFolder = TRUE]
    /\ UNCHANGED <<fsa, otherVars>>

\* WorkspaceProvider.syncNow, when it does not return early
SyncNow ==
    /\ ws.component = "WorkspaceProvider"
    /\ tasks["syncNow"].pc = "idle"
    /\ ws.directoryHandle # "none"
    /\ ws.syncStatus # "syncing"
    /\ Started("syncNow", "building")
    /\ ws' = performSync(ws)
    /\ UNCHANGED <<fsa, otherVars>>

\* The initial-sync effect of WorkspaceProvider, run after a render in which
\* directoryHandle or syncStatus changed
InitSyncEffect ==
    /\ ws.component = "WorkspaceProvider"
    /\ ws.effectDue
    /\ ws' = [ws EXCEPT !.effectDue = FALSE]
    /\ IF /\ ws.directoryHandle # "none"
          /\ ~ws.syncManagerRef
          /\ ws.syncStatus = "idle"
          /\ tasks["initSync"].pc = "idle"
       THEN Started("initSync", "query")
       ELSE UNCHANGED tasks
    /\ UNCHANGED <<fsa, otherVars>>

\* IDELayout.handleOpenFolder, up to its first await: the Open Folder button
\* is disabled while opening or syncing, the Re-authorize button is not
HandleOpenFolder ==
    /\ ws.component = "IDELayout"
    /\ tasks["handleOpenFolder"].pc = "idle"
    /\ \/ ~ws.isOpeningFolder /\ ws.syncStatus # "syncing"
       \/ ws.permissionState = "prompt"
    /\ Started("handleOpenFolder", IF ws.directoryHandle # "none" THEN "ensure" ELSE "pick")
    /\ ws' = [ws EXCEPT !.isOpeningFolder = TRUE]
    /\ UNCHANGED <<fsa, otherVars>>

\* The mount effect of IDELayout: loadDirectoryHandleReference(projectId)
LoadDirectoryHandleReference ==
    /\ tasks["restore"].pc = "load"
    /\ IF fsa.stored
       THEN /\ tasks' = [tasks EXCEPT !["restore"].pc = "query"]
            /\ ws' = [ws EXCEPT !.directoryHandle = "restored"]
       ELSE /\ Finished("restore")
            /\ ws' = [ws EXCEPT !.syncStatus = "idle"]
    /\ UNCHANGED <<fsa, otherVars>>

\* await getPermissionState(handle, 'readwrite') and what follows it
GetPermissionState(t) ==
    /\ tasks[t].pc = "query"
    /\ LET state  == fsa.permission
           next   == AfterQuery(t, state)
           shown  == IF t \in {"initSync", "restore"}
                     THEN [ws EXCEPT !.permissionState = state]
                     ELSE ws
       IN  /\ tasks' = [tasks EXCEPT ![t] = IF next = "idle" THEN IdleTask
                                            ELSE [@ EXCEPT !.pc = next, !.queried = state]]
           /\ ws' = IF next = "building" THEN performSync(shown)
                    ELSE IF t = "restore" THEN [shown EXCEPT !.syncStatus = "idle"]
                    ELSE shown
    /\ fsa' = [fsa EXCEPT !.calls = @ \cup {Called("getPermissionState", t)}]
    /\ UNCHANGED otherVars

\* await ensureReadWritePermission(handle) and what follows it
EnsureReadWritePermission(t) ==
    /\ tasks[t].pc = "ensure"
    /\ \E result \in EnsureResults(fsa.permission) :
         /\ fsa' = [fsa EXCEPT !.permission = result,
                               !.calls = @ \cup {Called("ensureReadWritePermission", t)}]
         /\ CASE t = "openFolder" ->
                  IF Truthy(result)
                  THEN /\ ws' = performSync([ws EXCEPT !.permissionState = "granted"])
                       /\ tasks' = [tasks EXCEPT ![t].pc = "building", ![t].ensured = result]
                  ELSE /\ ws' = [ws EXCEPT !.isOpeningFolder = TRUE]
                       /\ tasks' = [tasks EXCEPT ![t].pc = "pick", ![t].ensured = result]
              [] t = "handleOpenFolder" ->
                  IF result = "denied"
                  THEN /\ ws' = [ws EXCEPT !.permissionState = "denied"]
                       /\ tasks' = [tasks EXCEPT ![t].pc = "pick", ![t].ensured = result]
                  ELSE /\ ws' = [ws EXCEPT !.permissionState = "granted"]
                       /\ tasks' = [tasks EXCEPT ![t].pc = "saving", ![t].ensured = result]
              [] OTHER -> Finished(t) /\ UNCHANGED ws
    /\ UNCHANGED otherVars

\* await window.showDirectoryPicker(...) (requestDirectoryAccess in
\* IDELayout): the user selects a directory, or dismisses the picker and
\* the callback ends in its catch / finally
ShowDirectoryPicker(t) ==
    /\ tasks[t].pc = "pick"
    /\ \E outcome \in PickerOutcomes :
         /\ fsa' = [fsa EXCEPT !.permission = IF outcome = "selected" THEN "granted" ELSE @,
                               !.calls = @ \cup {Called("showDirectoryPicker", t)}]
         /\ IF outcome = "selected"
            THEN /\ ws' = [ws EXCEPT !.directoryHandle = "picked",
                                     !.permissionState = "granted",
                                     !.syncManagerRef = IF t = "switchFolder" THEN FALSE ELSE @,
                                     !.effectDue = TRUE]
                 /\ tasks' = [tasks EXCEPT ![t].pc = "saving", ![t].picked = TRUE]
            ELSE /\ ws' = Cancelled(ws, t,
                                     HandlerCatches(t, IF t = "handleOpenFolder"
                                                       THEN requestDirectoryAccess(outcome)
                                                       ELSE outcome))
                 /\ Finished(t)
    /\ UNCHANGED otherVars

\* await saveDirectoryHandleReference / saveProject, then the sync starts
SaveDirectoryHandleReference(t) ==
    /\ tasks[t].pc = "saving"
    /\ fsa' = [fsa EXCEPT !.stored = TRUE]
    /\ ws' = performSync(ws)
    /\ tasks' = [tasks EXCEPT ![t].pc = "building"]
    /\ UNCHANGED otherVars

\* The callback's sync has settled: the rest of performSync, or the
\* finally block of the IDELayout callback
SyncEnds(t, ok) ==
    /\ Finished(t)
    /\ ws' = IF ws.component = "WorkspaceProvider"
             THEN [ws EXCEPT !.syncStatus = IF ok THEN "idle" ELSE "error",
                             !.isOpeningFolder = IF tasks[t].picked THEN FALSE ELSE @,
                             !.effectDue = TRUE]
             ELSE [ws EXCEPT !.syncStatus = "idle",
                             !.isOpeningFolder = IF t = "handleOpenFolder" THEN FALSE ELSE @]

\* syncToWebContainer of the callback's SyncManager boots and builds the
\* tree: it calls mount(tree), or it has failed
Mount(t) ==
    /\ tasks[t].pc = "building"
    /\ \E ok \in BOOLEAN :
         IF ok THEN tasks' = [tasks EXCEPT ![t].pc = "mounting"] /\ UNCHANGED ws
         ELSE SyncEnds(t, FALSE)
    /\ UNCHANGED <<fsa, otherVars>>

\* mount(tree) settles, and with it syncToWebContainer
SyncSettles(t) ==
    /\ tasks[t].pc = "mounting"
    /\ \E ok \in BOOLEAN : SyncEnds(t, ok)
    /\ UNCHANGED <<fsa, otherVars>>

WorkspaceNext ==
    \/ OpenFolder
    \/ SwitchFolder
    \/ SyncNow
    \/ InitSyncEffect
    \/ HandleOpenFolder
    \/ LoadDirectoryHandleReference
    \/ \E t \in TaskNames : GetPermissionState(t)
    \/ \E t \in TaskNames : EnsureReadWritePermission(t)
    \/ \E t \in TaskNames : ShowDirectoryPicker(t)
    \/ \E t \in TaskNames : SaveDirectoryHandleReference(t)
    \/ \E t \in TaskNames : Mount(t)
    \/ \E t \in TaskNames : SyncSettles(t)

SpecWorkspace == WorkspaceInit /\ [][WorkspaceNext]_vars

(***************************************************************************)
(* SpecWalk: the counting pre-pass and the tree build of one sync          *)
(* (sync-operations.ts; SyncManager.buildFileSystemTree has the same       *)
(* loop), one step per await.  Any adapter call may reject.                *)
(***************************************************************************)
\* An invocation of countFilesToSync or buildFileSystemTree on directory p:
\* the entries its loop has still to visit and its local `count`
Frame(p) == [path |-> p, entries |-> << >>, count |-> 0]

\* An adapter call of the walk
AdapterCall(fn, p) == [fn |-> fn, path |-> p]

\* An `await` that does not wait: the call stays in flight
NotAwaited(w, call) == w

\* `await adapter.listDirectory(path)` / `await readFileContent(...)` has
\* settled
Awaited(w, call) == [w EXCEPT !.inflight = @ \ {call}]

\* The adapter call is made; the pre-pass notes which adapter functions it
\* calls
Issued(w, call) ==
    [w EXCEPT !.inflight = @ \cup {call},
              !.calls = IF w.phase = "counting" THEN @ \cup {call.fn} ELSE @]

\* path ? `${path}/${entry.name}` : entry.name
EntryPath(p, name) == IF p # << >> THEN ChildPath(p, name) ELSE name

\* The invocation on top has returned or thrown
Popped(w) == [w EXCEPT !.frames = SubSeq(@, 1, Len(@) - 1)]

\* A pre-pass that also counts the directories
RECURSIVE CountEntries(_)
CountEntries(w) ==
    IF w.frames = << >> THEN w
    ELSE LET n         == Len(w.frames)
             top       == w.frames[n]
             entry     == Head(top.entries)
             entryPath == EntryPath(top.path, entry.name)
             excluded  == isExcluded(excludePatterns, entryPath, entry.name)
             rest      == [w EXCEPT !.frames[n].entries = Tail(@)]
         IN  IF top.entries = << >>
             THEN IF n = 1
                  THEN [w EXCEPT !.frames = << >>, !.total = top.count, !.phase = "counted"]
                  ELSE CountEntries([Popped(w) EXCEPT !.frames[n - 1].count = @ + top.count])
             ELSE IF excluded = "SyntaxError"
             THEN [w EXCEPT !.frames = << >>, !.phase = "failed"]
             ELSE IF excluded = "true" THEN CountEntries(rest)
             ELSE IF entry.type = "directory"
             THEN Issued([rest EXCEPT !.frames = Append(@, Frame(entryPath)),
                                      !.frames[n].count = @ + 1],
                         AdapterCall("listDirectory", entryPath))
             ELSE CountEntries([rest EXCEPT !.frames[n].count = @ + 1])

\* countFilesToSync from a settled listDirectory up to its next await: the
\* loop over the remaining entries, and the returns to the callers
RECURSIVE CountAdvance(_)
CountAdvance(w) ==
    IF w.frames = << >> THEN w
    ELSE LET n         == Len(w.frames)
             top       == w.frames[n]
             entry     == Head(top.entries)
             entryPath == EntryPath(top.path, entry.name)
             excluded  == isExcluded(excludePatterns, entryPath, entry.name)
             rest      == [w EXCEPT !.frames[n].entries = Tail(@)]
         IN  IF top.entries = << >>
             THEN IF n = 1
                  THEN [w EXCEPT !.frames = << >>, !.total = top.count, !.phase = "counted"]
                  ELSE CountAdvance([Popped(w) EXCEPT !.frames[n - 1].count = @ + top.count])
             ELSE IF excluded = "SyntaxError"
             THEN [w EXCEPT !.frames = << >>, !.phase = "failed"]
             ELSE IF excluded = "true" THEN CountAdvance(rest)
             ELSE IF entry.type = "directory"
             THEN Issued([rest EXCEPT !.frames = Append(@, Frame(entryPath))],
                         AdapterCall("listDirectory", entryPath))
             ELSE CountAdvance([rest EXCEPT !.frames[n].count = @ + 1])

\* A loop body that ends without counting the entry
EntryUncounted(w, entryPath) == [w EXCEPT !.open = @ \ {entryPath}]

\* result.totalFiles++ and config.onProgress, the end of the loop body for
\* the entry at entryPath
EntryDone(w, entryPath) ==
    [w EXCEPT !.open = @ \ {entryPath}, !.result.totalFiles = @ + 1]

RECURSIVE BuildAdvance(_)
RECURSIVE BuildThrown(_)

\* buildFileSystemTree from a settled adapter call up to its next await: the
\* loop over the remaining entries, and the returns to the callers
BuildAdvance(w) ==
    IF w.frames = << >> THEN w
    ELSE LET n         == Len(w.frames)
             top       == w.frames[n]
             entry     == Head(top.entries)
             entryPath == EntryPath(top.path, entry.name)
             excluded  == isExcluded(excludePatterns, entryPath, entry.name)
             rest      == [w EXCEPT !.frames[n].entries = Tail(@)]
         IN  IF top.entries = << >>
             THEN IF n = 1
                  THEN [w EXCEPT !.frames = << >>, !.phase = "built"]
                  ELSE BuildAdvance(EntryDone(Popped(w), top.path))
             ELSE IF excluded = "SyntaxError" THEN BuildThrown(w)
             ELSE IF excluded = "true" THEN BuildAdvance(rest)
             ELSE IF entry.type = "directory"
             THEN Issued([rest EXCEPT !.frames = Append(@, Frame(entryPath)),
                                      !.open = @ \cup {entryPath}],
                         AdapterCall("listDirectory", entryPath))
             ELSE Issued([rest EXCEPT !.filesProcessed = @ + 1,
                                      !.open = @ \cup {entryPath}],
                         AdapterCall("readFile", entryPath))

\* The invocation on top throws: the catch block of the caller's loop pushes
\* the directory to failedFiles and goes on; nothing catches for the root
BuildThrown(w) ==
    IF Len(w.frames) = 1 THEN [w EXCEPT !.frames = << >>, !.phase = "failed"]
    ELSE BuildAdvance(EntryDone([Popped(w) EXCEPT !.result.failedFiles =
                                                      Append(@, w.frames[Len(w.frames)].path)],
                                w.frames[Len(w.frames)].path))

\* eventBus.emit('sync:progress', { current, total, currentFile })
ProgressEmitted(w) ==
    [w EXCEPT !.progress = Append(@, [current |-> w.filesProcessed, total |-> w.total])]

\* The directories a walk runs over
WalkDisks == SyncDisks \cup ProjectDisks

WalkInit ==
    /\ path = << >>
    /\ vresult = "none"
    /\ parsed = NotParsed
    /\ directoryHandle = TRUE
    /\ disk \in WalkDisks
    /\ last = NoCall
    /\ written = NothingWritten
    /\ excludePatterns \in SetterLists
    /\ NewSyncManager
    /\ NoWorkspace
    /\ walk = NoWalk
    /\ overlap = NoOverlap

\* countFilesToSync(adapter, '', excludePatterns, onError), up to its await
CountFilesToSync ==
    /\ walk.phase = "idle"
    /\ walk' = Issued([walk EXCEPT !.phase = "counting", !.frames = <<Frame(<< >>)>>],
                      AdapterCall("listDirectory", << >>))
    /\ UNCHANGED <<pathVars, adapterVars, syncVars, dualVars, workspaceVars, overlapVars>>

\* A listDirectory of the pre-pass settles; a rejection is rethrown by every
\* invocation up to the caller
CountListSettles ==
    /\ walk.phase = "counting"
    /\ \E call \in walk.inflight :
         \E listed \in {listDirectory(Ctx(disk, directoryHandle, 0), call.path)} :
            \/ walk' = CountAdvance([Awaited(walk, call) EXCEPT
                                        !.frames[Len(walk.frames)].entries = listed.val])
            \/ walk' = [Awaited(walk, call) EXCEPT !.frames = << >>, !.phase = "failed"]
    /\ UNCHANGED <<pathVars, adapterVars, syncVars, dualVars, workspaceVars, overlapVars>>

\* buildFileSystemTree(context, '', result, totalFileCount, { filesProcessed: 0 })
\* with the count of the pre-pass, up to its await
BuildFileSystemTree ==
    /\ walk.phase = "counted"
    /\ walk' = Issued([walk EXCEPT !.phase = "building", !.frames = <<Frame(<< >>)>>],
                      AdapterCall("listDirectory", << >>))
    /\ UNCHANGED <<pathVars, adapterVars, syncVars, dualVars, workspaceVars, overlapVars>>

\* A listDirectory of the build settles
BuildListSettles ==
    /\ walk.phase = "building"
    /\ \E call \in walk.inflight :
         /\ call.fn = "listDirectory"
         /\ \E listed \in {listDirectory(Ctx(disk, directoryHandle, 0), call.path)} :
               \/ walk' = BuildAdvance([Awaited(walk, call) EXCEPT
                                           !.frames[Len(walk.frames)].entries = listed.val])
               \/ walk' = BuildThrown(Awaited(walk, call))
    /\ UNCHANGED <<pathVars, adapterVars, syncVars, dualVars, workspaceVars, overlapVars>>

\* A readFileContent of the build settles: the file is put into the tree, or
\* pushed to failedFiles; progress is emitted either way
BuildReadSettles ==
    /\ walk.phase = "building"
    /\ \E call \in walk.inflight :
         /\ call.fn = "readFile"
         /\ \/ walk' = BuildAdvance(EntryDone(ProgressEmitted(
                           [Awaited(walk, call) EXCEPT !.result.syncedFiles = @ + 1]),
                           call.path))
            \/ walk' = BuildAdvance(EntryDone(ProgressEmitted(
                           [Awaited(walk, call) EXCEPT !.result.failedFiles =
                                                           Append(@, call.path)]),
                           call.path))
    /\ UNCHANGED <<pathVars, adapterVars, syncVars, dualVars, workspaceVars, overlapVars>>

WalkNext ==
    \/ CountFilesToSync
    \/ CountListSettles
    \/ BuildFileSystemTree
    \/ BuildListSettles
    \/ BuildReadSettles

SpecWalk == WalkInit /\ [][WalkNext]_vars

(***************************************************************************)
(* SpecOverlap: syncToWebContainer and writeFile calls on one SyncManager   *)
(* that overlap (index.ts), one step per await; the WebContainer's file     *)
(* system is kept as its content.  Any await may reject.                    *)
(***************************************************************************)
\* The call stands between its entry and its return or throw
InFlight(s) == s.pc \in {"booting", "listing", "reading", "mounting"}

CallsInFlight(o) == {k \in 1..MaxOverlap : InFlight(o.syncs[k])}

\* mount(tree): every file and directory of the tree is put into the
\* WebContainer's file system, over what is there
MountTree(sandbox, tree) ==
    [q \in (DOMAIN sandbox) \cup (DOMAIN tree) |->
        IF q \in DOMAIN tree THEN tree[q] ELSE sandbox[q]]

\* fs.mkdir(parentPath, { recursive: true })
SandboxMkdir(sandbox, segments) ==
    [q \in (DOMAIN sandbox) \cup {SubSeq(segments, 1, i) : i \in 1..Len(segments)} |->
        IF q \in DOMAIN sandbox THEN sandbox[q] ELSE DirMark]

RECURSIVE TreeAdvance(_)

\* buildFileSystemTree of invocation `top` throws: the catch block of the
\* caller's loop goes on with the next entry; nothing catches for the root
TreeThrown(s) ==
    IF Len(s.frames) = 1 THEN [s EXCEPT !.frames = << >>, !.pc = "thrown"]
    ELSE TreeAdvance([s EXCEPT !.frames = SubSeq(@, 1, Len(@) - 1)])

\* SyncManager.buildFileSystemTree from a settled adapter call up to its next
\* await; the root invocation returns into `await mount(tree)`
TreeAdvance(s) ==
    LET n         == Len(s.frames)
        top       == s.frames[n]
        entry     == Head(top.entries)
        entryPath == EntryPath(top.path, entry.name)
        excluded  == isExcluded(excludePatterns, entryPath, entry.name)
        rest      == [s EXCEPT !.frames[n].entries = Tail(@)]
    IN  IF top.entries = << >>
        THEN IF n = 1 THEN [s EXCEPT !.frames = << >>, !.pc = "mounting"]
             ELSE TreeAdvance([s EXCEPT !.frames = SubSeq(@, 1, n - 1),
                                        !.tree = PutEntry(@, parsePathSegments(top.path),
                                                          DirMark)])
        ELSE IF excluded = "SyntaxError" THEN TreeThrown(s)
        ELSE IF excluded = "true" THEN TreeAdvance(rest)
        ELSE IF entry.type = "directory"
        THEN [rest EXCEPT !.frames = Append(@, Frame(entryPath)), !.pc = "listing"]
        ELSE [rest EXCEPT !.pc = "reading", !.reading = entryPath]

\* The call k has gone on to s: a throw reaches the catch block of
\* syncToWebContainer, which sets the status
SyncGoesOn(k, s) ==
    /\ overlap' = [overlap EXCEPT !.syncs[k] = s]
    /\ status' = IF s.pc = "thrown" THEN "error" ELSE status

\* The directories the overlapping calls run over: files and directories
\* named a and b
OverlapDisks ==
    {d \in SyncDisks : d # << >> /\ \A q \in DOMAIN d : \A i \in 1..Len(q) : Len(q[i]) = 1}

\* The paths the editor saves
OverlapPaths == {<<"a">>, <<"a", "/", "b">>}

OverlapInit ==
    /\ path = << >>
    /\ vresult = "none"
    /\ parsed = NotParsed
    /\ directoryHandle = TRUE
    /\ disk \in OverlapDisks
    /\ last = NoCall
    /\ written = NothingWritten
    /\ excludePatterns = DefaultExcludePatterns
    /\ NewSyncManager
    /\ NoWorkspace
    /\ walk = NoWalk
    /\ overlap = NoOverlap

\* syncToWebContainer(), up to its first await: boot() if the WebContainer is
\* not booted, else the listing of the root
SyncToWebContainerEnters(k) ==
    /\ overlap.syncs[k].pc = "idle"
    /\ status' = "syncing"
    /\ overlap' = [overlap EXCEPT !.syncs[k] =
                      IF booted THEN [IdleSync EXCEPT !.pc = "listing",
                                                      !.frames = <<Frame(<< >>)>>]
                      ELSE [IdleSync EXCEPT !.pc = "booting"]]
    /\ UNCHANGED <<pathVars, adapterVars, excludePatterns, synced, throwingHook, previous,
                   dualVars, workspaceVars, walkVars>>

\* boot() settles
BootSettles(k) ==
    /\ overlap.syncs[k].pc = "booting"
    /\ \/ /\ booted' = TRUE
          /\ SyncGoesOn(k, [overlap.syncs[k] EXCEPT !.pc = "listing",
                                                    !.frames = <<Frame(<< >>)>>])
       \/ /\ SyncGoesOn(k, [overlap.syncs[k] EXCEPT !.pc = "thrown"])
          /\ UNCHANGED booted
    /\ UNCHANGED <<pathVars, adapterVars, excludePatterns, synced, throwingHook, previous,
                   dual, workspaceVars, walkVars>>

\* localAdapter.listDirectory(path) of buildFileSystemTree settles
ListSettles(k) ==
    /\ overlap.syncs[k].pc = "listing"
    /\ LET s == overlap.syncs[k]
       IN  \E listed \in {listDirectory(Ctx(disk, directoryHandle, 0),
                                        s.frames[Len(s.frames)].path)} :
              \/ /\ listed.err = NoError
                 /\ SyncGoesOn(k, TreeAdvance([s EXCEPT !.frames[Len(s.frames)].entries =
                                                            listed.val]))
              \/ SyncGoesOn(k, TreeThrown(s))
    /\ UNCHANGED <<pathVars, adapterVars, excludePatterns, synced, throwingHook, previous,
                   dualVars, workspaceVars, walkVars>>

\* The read of a file's content settles: the file is put into the tree, or
\* left out of it
ReadSettles(k) ==
    /\ overlap.syncs[k].pc = "reading"
    /\ LET s == overlap.syncs[k]
       IN  \E read \in {readFile(Ctx(disk, directoryHandle, 0), s.reading)} :
              \/ /\ read.err = NoError
                 /\ SyncGoesOn(k, TreeAdvance([s EXCEPT !.tree =
                                      PutEntry(@, parsePathSegments(s.reading), read.val),
                                                        !.reading = << >>]))
              \/ SyncGoesOn(k, TreeAdvance([s EXCEPT !.reading = << >>]))
    /\ UNCHANGED <<pathVars, adapterVars, excludePatterns, synced, throwingHook, previous,
                   dualVars, workspaceVars, walkVars>>

\* mount(tree) settles: the call sets the status and returns, or throws
MountSettles(k) ==
    /\ overlap.syncs[k].pc = "mounting"
    /\ \/ /\ overlap' = [overlap EXCEPT !.sandbox = MountTree(@, overlap.syncs[k].tree),
                                        !.syncs[k].pc = "returned"]
          /\ status' = "idle"
       \/ SyncGoesOn(k, [overlap.syncs[k] EXCEPT !.pc = "thrown"])
    /\ UNCHANGED <<pathVars, adapterVars, excludePatterns, synced, throwingHook, previous,
                   dualVars, workspaceVars, walkVars>>

\* handleSave: syncManager.writeFile(path, content), up to
\* `await this.localAdapter.writeFile(path, content)`
HandleSave ==
    /\ overlap.write.pc = "idle"
    /\ \E p \in OverlapPaths :
          overlap' = [overlap EXCEPT !.write = [pc |-> "local", path |-> p, content |-> "y",
                                                during |-> CallsInFlight(overlap),
                                                within |-> {}]]
    /\ UNCHANGED <<pathVars, adapterVars, syncVars, dualVars, workspaceVars, walkVars>>

\* The write has settled: the syncs that were in flight from its call to now
WriteSettled(w, pc) ==
    [w EXCEPT !.pc = pc, !.within = w.during \cap CallsInFlight(overlap)]

\* The local write settles; with the WebContainer booted the sandbox's
\* parent directory is made next, or the file is written at once
LocalWriteSettles ==
    /\ overlap.write.pc = "local"
    /\ LET w == overlap.write
       IN  \E l \in {writeFile(Ctx(disk, directoryHandle, 0), w.path, w.content)} :
              /\ disk' = l.c.disk
              /\ overlap' = [overlap EXCEPT !.write =
                                IF l.err # NoError THEN WriteSettled(w, "thrown")
                                ELSE IF ~booted THEN WriteSettled(w, "returned")
                                ELSE IF Len(SplitSlash(w.path)) > 1 THEN [w EXCEPT !.pc = "mkdir"]
                                ELSE [w EXCEPT !.pc = "writeFile"]]
    /\ UNCHANGED <<pathVars, directoryHandle, last, written, syncVars, dualVars,
                   workspaceVars, walkVars>>

\* fs.mkdir(parentPath, { recursive: true }) settles; a rejection is ignored
MkdirSettles ==
    /\ overlap.write.pc = "mkdir"
    /\ LET segments == SplitSlash(overlap.write.path)
       IN  \E made \in {overlap.sandbox,
                        SandboxMkdir(overlap.sandbox, SubSeq(segments, 1, Len(segments) - 1))} :
              overlap' = [overlap EXCEPT !.sandbox = made, !.write.pc = "writeFile"]
    /\ UNCHANGED <<pathVars, adapterVars, syncVars, dualVars, workspaceVars, walkVars>>

\* fs.writeFile(path, content) settles, and with it SyncManager.writeFile
SandboxWriteSettles ==
    /\ overlap.write.pc = "writeFile"
    /\ LET w == overlap.write
       IN  \/ overlap' = [overlap EXCEPT !.sandbox = PutEntry(@, SplitSlash(w.path), w.content),
                                         !.write = WriteSettled(w, "returned")]
           \/ overlap' = [overlap EXCEPT !.write = WriteSettled(w, "thrown")]
    /\ UNCHANGED <<pathVars, adapterVars, syncVars, dualVars, workspaceVars, walkVars>>

OverlapNext ==
    \/ \E k \in 1..MaxOverlap : SyncToWebContainerEnters(k)
    \/ \E k \in 1..MaxOverlap : BootSettles(k)
    \/ \E k \in 1..MaxOverlap : ListSettles(k)
    \/ \E k \in 1..MaxOverlap : ReadSettles(k)
    \/ \E k \in 1..MaxOverlap : MountSettles(k)
    \/ HandleSave
    \/ LocalWriteSettles
    \/ MkdirSettles
    \/ SandboxWriteSettles

SpecOverlap == OverlapInit /\ [][OverlapNext]_vars

(***************************************************************************)
(* Path shapes, stated on the characters of the string                     *)
(***************************************************************************)
IsSeparator(c) == c \in {"/", "\\"}

\* p has a segment that is exactly `..`: two dots delimited on each side by a
\* separator or by the end of the string
HasDotDotSegment(p) ==
    \E i \in 1..(Len(p) - 1) :
        /\ p[i] = "." /\ p[i + 1] = "."
        /\ (i = 1 \/ IsSeparator(p[i - 1]))
        /\ (i + 1 = Len(p) \/ IsSeparator(p[i + 2]))

HasDotDotSubstring(p) == \E i \in 1..(Len(p) - 1) : p[i] = "." /\ p[i + 1] = "."

\* `..` occurs in p, but only inside longer segments
DotDotOnlyInsideNames(p) == HasDotDotSubstring(p) /\ ~HasDotDotSegment(p)

StartsWithSeparator(p) == Len(p) >= 1 /\ IsSeparator(p[1])

HasDriveLetterPrefix(p) == Len(p) >= 2 /\ p[1] \in Letters /\ p[2] = ":"

SecondCharIsColon(p) == Len(p) >= 2 /\ p[2] = ":"

\* C2 (as stated): every path with a `..` segment fails with PATH_TRAVERSAL and
\* every path where `..` is only part of a longer segment validates.
C2_Original ==
    vresult # "none" =>
        /\ HasDotDotSegment(path) => vresult = "PATH_TRAVERSAL"
        /\ DotDotOnlyInsideNames(path) => vresult = "OK"

\* C2 (amended): for every path that does not start with a separator and whose
\* second character is not `:`, a `..` segment makes validatePath fail with
\* PATH_TRAVERSAL, and `..` occurring only inside longer segments lets it succeed.
C2_TraversalOnRelativePaths ==
    (vresult # "none" /\ ~StartsWithSeparator(path) /\ ~SecondCharIsColon(path)) =>
        /\ HasDotDotSegment(path) => vresult = "PATH_TRAVERSAL"
        /\ DotDotOnlyInsideNames(path) => vresult = "OK"

C2_Witness ==
    /\ vresult = "OK"
    /\ DotDotOnlyInsideNames(path)
    /\ Len(path) = 3

\* C3: every path that starts with `/` or `\`, or with a drive-letter prefix,
\* fails with ABSOLUTE_PATH.
C3_AbsoluteRejected ==
    (vresult # "none" /\ (StartsWithSeparator(path) \/ HasDriveLetterPrefix(path))) =>
        vresult = "ABSOLUTE_PATH"

C3_Witness ==
    /\ vresult = "ABSOLUTE_PATH"
    /\ HasDriveLetterPrefix(path)
    /\ Len(path) >= 3

(***************************************************************************)
(* Claims about the adapter (SpecAdapter)                                  *)
(***************************************************************************)
\* The entry a path addresses: its list of segments
Loc(p) == parsePathSegments(p)

\* Empty, absolute, or with a `..` segment
InvalidPath(p) == p = << >> \/ StartsWithSeparator(p) \/ HasDotDotSegment(p)

CallsOf(fn) == {i \in 1..Len(last.calls) : last.calls[i].fn = fn}

\* The call in `last` was given an invalid path (listDirectory: a non-empty one)
GivenInvalidPath ==
    CASE last.op \in {"readFile", "writeFile", "deleteFile",
                      "createDirectory", "deleteDirectory"} -> InvalidPath(last.path)
      [] last.op = "listDirectory" -> last.path # << >> /\ InvalidPath(last.path)
      [] last.op = "rename" -> InvalidPath(last.path) \/ InvalidPath(last.newPath)
      [] OTHER -> FALSE

\* The call in `last` was given valid paths only
GivenValidPaths ==
    CASE last.op \in {"readFile", "writeFile", "deleteFile",
                      "createDirectory", "deleteDirectory"} -> ~InvalidPath(last.path)
      [] last.op = "listDirectory" -> last.path = << >> \/ ~InvalidPath(last.path)
      [] last.op = "rename" -> ~InvalidPath(last.path) /\ ~InvalidPath(last.newPath)
      [] OTHER -> FALSE

\* C1: an operation given an empty, absolute or `..` path fails without any
\* call on a directory handle and leaves the local directory unchanged.
C1_ValidatedBeforeIO ==
    GivenInvalidPath =>
        /\ last.code # "OK"
        /\ last.calls = << >>
        /\ disk = last.before

\* C4: on an adapter with no bound handle, every operation given a valid path
\* fails with NO_DIRECTORY_ACCESS.
C4_UnboundRejected ==
    (~directoryHandle /\ GivenValidPaths) => last.code = "NO_DIRECTORY_ACCESS"

\* C5: writeFile(p, c) then readFile(p) returns c; writeFile(p, c), deleteFile(p),
\* then readFile(p) fails with FILE_NOT_FOUND (no I/O failure injected).
C5_RoundTrip ==
    (last.op = "readFile" /\ last.path = written.path /\ ~last.faulted) =>
        /\ written.stage = "written" =>
               last.code = "OK" /\ last.text = written.content
        /\ written.stage = "deleted" => last.code = "FILE_NOT_FOUND"

\* C6: no handle call is given a multi-segment string, so the file that
\* writeFile(p) created is found by deleteFile(p) and by rename(p, ...).
C6_SegmentWalk ==
    /\ \A i \in 1..Len(last.calls) :
           \A k \in 1..Len(last.calls[i].name) : ~IsSeparator(last.calls[i].name[k])
    /\ (last.op = "deleteFile" /\ written.stage = "deleted" /\ ~last.faulted) =>
           last.code = "OK"
    /\ (last.op = "rename" /\ GivenValidPaths /\ IsFile(last.before, Loc(last.path))
           /\ ~last.faulted) => last.code # "PATH_NOT_FOUND"

\* C7: in writeFile every writable stream that was acquired is closed exactly
\* once, after the write and also when the write fails, and a writeFile that
\* fails after the validation and binding checks fails with FILE_WRITE_FAILED.
C7_WritableClosedOnce ==
    last.op = "writeFile" =>
        LET acquired == {i \in CallsOf("createWritable") : last.calls[i].err = "none"}
        IN  /\ Cardinality(CallsOf("close")) = Cardinality(acquired)
            /\ Cardinality(acquired) <= 1
            /\ \A i \in acquired : \A j \in CallsOf("write") \cup CallsOf("close") : i < j
            /\ \A i \in CallsOf("write") : \A j \in CallsOf("close") : i < j
            /\ \A i \in CallsOf("write") : \E j \in CallsOf("close") : TRUE
            /\ (directoryHandle /\ GivenValidPaths) =>
                   last.code \in {"OK", "FILE_WRITE_FAILED"}
            /\ (last.faulted /\ directoryHandle /\ GivenValidPaths) =>
                   last.code = "FILE_WRITE_FAILED"

C7_Witness ==
    /\ last.op = "writeFile"
    /\ last.code = "FILE_WRITE_FAILED"
    /\ \E i \in CallsOf("write") : last.calls[i].err # "none"
    /\ Cardinality(CallsOf("close")) = 1
    /\ Len(Loc(last.path)) = 2

\* C8: rename of an existing entry to a different path copies before it
\* deletes; on success newPath holds the old content and oldPath is gone; if
\* the copy fails oldPath is intact; if the delete fails both copies remain
\* and the call rejects.
C8_CopyThenDelete ==
    LET old      == Loc(last.path)
        new      == Loc(last.newPath)
        b        == last.before
        moved(q) == new \o SubSeq(q, Len(old) + 1, Len(q))
        holdsOld == \A q \in DOMAIN b :
                        IsPrefix(old, q) => moved(q) \in DOMAIN disk /\ disk[moved(q)] = b[q]
        oldGone   == \A q \in DOMAIN disk : ~IsPrefix(old, q)
        oldIntact == \A q \in DOMAIN b :
                        IsPrefix(old, q) => q \in DOMAIN disk /\ disk[q] = b[q]
        removes   == CallsOf("removeEntry")
    IN  (last.op = "rename" /\ directoryHandle /\ GivenValidPaths
            /\ last.path # last.newPath /\ old \in DOMAIN b) =>
            /\ \A i \in removes : \A j \in 1..Len(last.calls) :
                   j > i => last.calls[j].fn = "removeEntry"
            /\ last.code = "OK" => holdsOld /\ oldGone
            /\ (last.code # "OK" /\ removes = {}) => oldIntact
            /\ (\E i \in removes : last.calls[i].err # "none") =>
                   last.code # "OK" /\ oldIntact /\ holdsOld

\* C9: a rename that fails after validation and the binding check fails with
\* PATH_NOT_FOUND when nothing exists at oldPath and with RENAME_FAILED, the
\* cause attached, otherwise.
C9_RenameErrorCodes ==
    (last.op = "rename" /\ directoryHandle /\ GivenValidPaths /\ last.code # "OK") =>
        IF Loc(last.path) \notin DOMAIN last.before
        THEN last.code = "PATH_NOT_FOUND"
        ELSE last.code = "RENAME_FAILED" /\ last.cause # "none"

(***************************************************************************)
(* Claims about the sync (SpecSync)                                        *)
(***************************************************************************)
\* A `*` glob: `*` stands for any run of characters, every other character
\* for itself
RECURSIVE GlobMatches(_, _)
GlobMatches(pattern, s) ==
    IF pattern = << >> THEN s = << >>
    ELSE IF Head(pattern) = "*"
    THEN \E k \in 0..Len(s) : GlobMatches(Tail(pattern), SubSeq(s, k + 1, Len(s)))
    ELSE s # << >> /\ Head(s) = Head(pattern) /\ GlobMatches(Tail(pattern), Tail(s))

\* The name or the full path of the entry at q matches one of the patterns
EntryMatches(patterns, q) ==
    \E i \in 1..Len(patterns) :
        \/ GlobMatches(patterns[i], q[Len(q)])
        \/ GlobMatches(patterns[i], JoinSlash(q))

\* The entry at q matches, or lies below a directory that matches
ExcludedEntry(patterns, q) ==
    \E k \in 1..Len(q) : EntryMatches(patterns, SubSeq(q, 1, k))

\* C10: an entry that matches a configured pattern, or lies below a directory
\* that does, is not in the tree a full sync builds, and the sync makes no
\* handle call on it: it is neither listed nor read.
C10_ExcludedNeverSynced ==
    synced # NoSync =>
        \A q \in DOMAIN disk :
            ExcludedEntry(synced.patterns, q) =>
                /\ q \notin DOMAIN synced.tree
                /\ \A i \in 1..Len(synced.calls) :
                       /\ synced.calls[i].on # q
                       /\ Append(synced.calls[i].on, synced.calls[i].name) # q

\* C11: with the default patterns, a sync of the project directory (`.git/`,
\* `node_modules/`, `src/index.ts`, `package.json`) in which no call fails
\* builds exactly `src` with `index.ts` and `package.json`, and that is the
\* tree it mounts.
C11_DefaultExclusions ==
    (synced # NoSync /\ ~synced.faulted /\ disk \in ProjectDisks
        /\ synced.patterns = DefaultExcludePatterns) =>
        /\ synced.treeBuilt => synced.tree = ProjectTree
        /\ synced.code = "OK" => synced.treeBuilt /\ synced.mountCalled
        /\ ~synced.treeBuilt => synced.code = "SYNC_FAILED" /\ synced.calls = << >>

C11_Witness ==
    /\ synced.code = "OK"
    /\ synced.mountCalled
    /\ ~synced.faulted
    /\ synced.patterns = DefaultExcludePatterns
    /\ disk \in ProjectDisks
    /\ <<DotGit, <<"a">>>> \in DOMAIN disk
    /\ synced.tree = ProjectTree


\* The files of the synced directory that no pattern excludes
NonExcludedFiles ==
    {q \in DOMAIN disk : IsFile(disk, q) /\ ~ExcludedEntry(synced.patterns, q)}

\* The sync came to call mount and mount rejected
MountRejected == synced.mountCalled /\ synced.code # "OK"

\* C12: when exactly one file read fails during a full sync (and mount does
\* not reject), the sync resolves, failedFiles has one entry and totalFiles is
\* the number of non-excluded files, whatever the shape of the directory.
C12_OneFailedRead ==
    (synced # NoSync /\ synced.failedReads = 1 /\ ~MountRejected) =>
        /\ synced.code = "OK"
        /\ Len(synced.result.failedFiles) = 1
        /\ synced.result.totalFiles = Cardinality(NonExcludedFiles)

\* C13: a full sync that resolves and in which every list and every read
\* succeeded returns syncedFiles = totalFiles and no failedFiles, also over
\* directories with non-excluded subdirectories.
C13_CleanSyncCounts ==
    (synced # NoSync /\ synced.code = "OK" /\ ~synced.faulted) =>
        /\ synced.result.syncedFiles = synced.result.totalFiles
        /\ synced.result.failedFiles = << >>
C15_StatusAndOnComplete ==
    /\ synced = Running => status = "syncing"
    /\ synced \notin {NoSync, Running} =>
           /\ synced.code = "OK" => status = "idle"
           /\ synced.code # "OK" => status = "error"
           /\ synced.onComplete = 1
\* The WebContainer call number i of the settled dual write
SandboxCallIs(i, fn, p, arg) ==
    /\ i \in 1..Len(dual.sandbox)
    /\ dual.sandbox[i].fn = fn
    /\ dual.sandbox[i].path = p
    /\ dual.sandbox[i].arg = arg

\* The parent directory of the entry the local adapter resolves p to
ParentPath(p) == JoinSlash(SubSeq(Loc(p), 1, Len(Loc(p)) - 1))

\* C17: SyncManager.writeFile with the WebContainer not booted writes to the
\* local directory only and makes no WebContainer call; booted, it writes to
\* both, and for a path of several segments it first creates the parent
\* directory in the WebContainer (mkdir recursive), then writes the file.
C17_WriteFileDualWrite ==
    (dual.op = "writeFile" /\ dual.localOk) =>
        /\ IsFile(disk, Loc(dual.path)) /\ disk[Loc(dual.path)] = dual.content
        /\ ~dual.booted => dual.sandbox = << >>
        /\ dual.booted =>
               /\ SandboxCallIs(Len(dual.sandbox), "writeFile", dual.path, dual.content)
               /\ Len(Loc(dual.path)) > 1 =>
                      /\ Len(dual.sandbox) = 2
                      /\ SandboxCallIs(1, "mkdir", ParentPath(dual.path), "recursive")

\* A WebContainer call of the settled dual write failed
SandboxFailed == \E i \in 1..Len(dual.sandbox) : dual.sandbox[i].failed

\* The settled dual write's own WebContainer call, its last one, failed
SandboxLastFailed == dual.sandbox # << >> /\ dual.sandbox[Len(dual.sandbox)].failed

\* The local change of a writeFile or createDirectory is in the directory
LocalChangeStays ==
    IF dual.op = "writeFile"
    THEN IsFile(disk, Loc(dual.path)) /\ disk[Loc(dual.path)] = dual.content
    ELSE Loc(dual.path) # << >> /\ IsDirectory(disk, Loc(dual.path))

\* C18 as stated: after a successful local step, any failed WebContainer call
\* is swallowed in deleteFile and deleteDirectory, and makes writeFile and
\* createDirectory reject with FILE_WRITE_FAILED, the local change staying.
C18_Original ==
    (dual.localOk /\ SandboxFailed) =>
        /\ dual.op \in {"deleteFile", "deleteDirectory"} => dual.code = "OK"
        /\ dual.op \in {"writeFile", "createDirectory"} =>
               dual.code = "FILE_WRITE_FAILED" /\ LocalChangeStays

\* C18: after a successful local step, a failed rm is swallowed in deleteFile
\* and deleteDirectory; a failed fs.writeFile in writeFile and a failed
\* fs.mkdir in createDirectory make the call reject with FILE_WRITE_FAILED
\* (onError invoked once) while the local change stays; a failed mkdir of the
\* parent directory inside writeFile is swallowed like the deletes, and the
\* write that follows decides.
C18_SandboxFailures ==
    (dual.localOk /\ dual.booted) =>
        /\ dual.op \in {"deleteFile", "deleteDirectory"} =>
               dual.code = "OK" /\ Len(dual.sandbox) = 1
        /\ dual.op \in {"writeFile", "createDirectory"} =>
               /\ LocalChangeStays
               /\ SandboxLastFailed =>
                      dual.code = "FILE_WRITE_FAILED" /\ dual.onError = 1
               /\ ~SandboxLastFailed => dual.code = "OK"

C18_Witness ==
    /\ dual.op = "writeFile"
    /\ dual.localOk
    /\ Len(dual.sandbox) = 2
    /\ dual.sandbox[1].failed
    /\ dual.code = "OK"
    /\ LocalChangeStays
\* The callbacks whose sync is in flight
SyncsInFlight == {t \in TaskNames : tasks[t].pc \in SyncPcs}

\* C16: at most one full sync is in flight per workspace: a sync requested
\* by syncNow, openFolder, switchFolder or the initial-sync effect while
\* another runs is not started, so no two syncs overlap and mount is never
\* called by two of them.
C16_OneSyncInFlight ==
    ws.component = "WorkspaceProvider" => Cardinality(SyncsInFlight) <= 1

PromptingCalls == {"ensureReadWritePermission", "showDirectoryPicker"}

UserActions == {"openFolder", "switchFolder", "handleOpenFolder"}

MountTimeTasks == {"initSync", "restore"}

\* C19: ensureReadWritePermission and the directory picker are called by
\* the open-folder and switch-folder callbacks only; the restore path of
\* IDELayout and the initial-sync effect call getPermissionState only, and
\* have a sync in flight only when it answered 'granted'.
C19_PromptsOnlyFromUserActions ==
    /\ \A call \in fsa.calls :
           /\ call.fn \in PromptingCalls => call.by \in UserActions
           /\ call.by \in MountTimeTasks => call.fn = "getPermissionState"
    /\ \A t \in MountTimeTasks :
           /\ tasks[t].pc \notin {"ensure", "pick", "saving"}
           /\ tasks[t].pc \in SyncPcs => tasks[t].queried = "granted"

C19_Witness ==
    /\ Called("getPermissionState", "initSync") \in fsa.calls
    /\ Called("ensureReadWritePermission", "openFolder") \in fsa.calls
    /\ tasks["initSync"].pc = "idle"
    /\ fsa.permission = "denied"
    /\ \A call \in fsa.calls : call.by = "initSync" => call.fn = "getPermissionState"

\* C20: a callback that goes on with the existing handle has a sync in
\* flight only if getPermissionState or ensureReadWritePermission answered
\* 'granted'; after 'denied' the component shows 'granted' only once a
\* directory has been selected in the picker.
C20_GrantedOnlyWhenGranted ==
    /\ \A t \in UserActions :
           (tasks[t].pc \in SyncPcs \cup {"saving"} /\ ~tasks[t].picked) =>
               tasks[t].queried = "granted" \/ tasks[t].ensured = "granted"
    /\ ws.permissionState = "granted" => fsa.permission = "granted"
\* directoryHandle={permissionState === 'granted' ? directoryHandle : null}
FileTreeHandle(w) == IF w.permissionState = "granted" THEN w.directoryHandle ELSE "none"

\* The step in which handleOpenFolder is told that the user dismissed the
\* picker (and ends), or refused the permission prompt
OpenFolderRefused ==
    \/ tasks["handleOpenFolder"].pc = "pick" /\ tasks'["handleOpenFolder"].pc = "idle"
    \/ tasks["handleOpenFolder"].pc = "ensure" /\ tasks'["handleOpenFolder"].ensured = "denied"

\* C21: when the user dismisses the directory picker or refuses the
\* permission prompt during handleOpenFolder, no exception escapes, no sync
\* is started, the adapter the component holds is bound as before, the file
\* tree is given no directory handle (an empty tree stays empty, and a
\* refused prompt takes the handle away), and when the callback ends with
\* the dismissed picker isOpeningFolder is false again.
C21_RefusalLeavesNoTrace ==
    [][OpenFolderRefused =>
          /\ ~ws'.unhandled
          /\ {t \in TaskNames : tasks'[t].pc \in SyncPcs} \subseteq SyncsInFlight
          /\ tasks'["handleOpenFolder"].pc \notin SyncPcs \cup {"saving"}
          /\ ws'.localAdapterRef = ws.localAdapterRef
          /\ FileTreeHandle(ws') \in {"none", FileTreeHandle(ws)}
          /\ tasks'["handleOpenFolder"].ensured = "denied" => FileTreeHandle(ws') = "none"
          /\ tasks'["handleOpenFolder"].pc = "idle" => ~ws'.isOpeningFolder]_vars

C21_Witness ==
    /\ ws.component = "IDELayout"
    /\ Called("ensureReadWritePermission", "handleOpenFolder") \in fsa.calls
    /\ Called("showDirectoryPicker", "handleOpenFolder") \in fsa.calls
    /\ tasks["handleOpenFolder"].pc = "idle"
    /\ ws.directoryHandle = "restored"
    /\ ws.permissionState = "denied"
    /\ fsa.permission = "denied"
    /\ ~ws.isOpeningFolder
\* The tree a sync of the directory builds when no call fails
UnfailedTree ==
    syncToWebContainer(Ctx(disk, directoryHandle, 0), synced.patterns, "booted", "none").tree

\* The tree without the entry at h and whatever lies below it
WithoutEntry(tree, h) == [q \in {q \in DOMAIN tree : ~IsPrefix(h, q)} |-> tree[q]]

\* C22: when a read or a list fails during a full sync, in the root or below
\* it, the failed path is appended to failedFiles and reported through
\* onError, and the traversal goes on: the sync resolves with the tree of
\* all the other entries.
C22_FailuresDoNotStopTraversal ==
    (synced \notin {NoSync, Running} /\ synced.faulted) =>
        /\ Len(synced.result.failedFiles) = 1
        /\ synced.onError = 1
        /\ synced.code = "OK"
        /\ synced.tree = WithoutEntry(UnfailedTree, Loc(synced.result.failedFiles[1]))
\* boot() rejected: the sync failed before it listed anything
BootRejected == synced.code \notin {"OK", "running"} /\ synced.calls = << >>

\* C23: when boot() or mount() fails, syncToWebContainer rejects with a
\* SyncError of code SYNC_FAILED whose cause is the error of boot() or
\* mount(), status is 'error', and onComplete is handed, once, a SyncResult
\* with success = false.
C23_BootOrMountFailure ==
    /\ (synced # NoSync /\ BootRejected) =>
           /\ synced.code = "SYNC_FAILED" /\ synced.cause = "BootError"
           /\ status = "error" /\ synced.status = "error"
           /\ ~synced.result.success /\ synced.onComplete = 1
    /\ (synced # NoSync /\ MountRejected) =>
           /\ synced.code = "SYNC_FAILED" /\ synced.cause = "MountError"
           /\ status = "error" /\ synced.status = "error"
           /\ ~synced.result.success /\ synced.onComplete = 1

C23_Witness ==
    /\ synced # NoSync
    /\ MountRejected
    /\ synced.code = "SYNC_FAILED"
    /\ synced.cause = "MountError"
    /\ status = "error"
    /\ ~synced.result.success
    /\ synced.result.syncedFiles > 0
\* The directory p and the directories above it, below the root
DirectoriesTo(p) == {SubSeq(Loc(p), 1, k) : k \in 1..Len(Loc(p))}

\* A bound adapter has settled createDirectory on a valid path, no handle
\* call was made to fail, and no file stands where a directory is asked for
CreatedDirectory ==
    /\ last.op = "createDirectory"
    /\ directoryHandle
    /\ ~last.faulted
    /\ validatePath(last.path) = "OK"
    /\ \A h \in DirectoriesTo(last.path) : ~IsFile(last.before, h)

\* C24: createDirectory(p) on an existing directory succeeds and leaves the
\* directory and all its contents as they were; a second createDirectory(p)
\* leaves the state of the first; and the call creates p together with its
\* missing intermediate directories, touching nothing else.
C24_CreateDirectoryIdempotent ==
    CreatedDirectory =>
        /\ last.code = "OK"
        /\ IsDirectory(last.before, Loc(last.path)) => disk = last.before
        /\ \A h \in DirectoriesTo(last.path) : IsDirectory(disk, h)
        /\ DOMAIN disk = DOMAIN last.before \cup DirectoriesTo(last.path)
        /\ \A q \in DOMAIN last.before : disk[q] = last.before[q]
        /\ \E again \in {createDirectory(Ctx(disk, directoryHandle, 0), last.path)} :
              again.err = NoError /\ again.c.disk = disk

C24_Witness ==
    /\ CreatedDirectory
    /\ last.code = "OK"
    /\ IsDirectory(last.before, Loc(last.path))
    /\ \E q \in DOMAIN last.before : IsFile(last.before, q) /\ IsPrefix(Loc(last.path), q)
    /\ disk = last.before
\* The orders in which a directory handle may enumerate the entries es
Enumerations(es) ==
    {order \in [1..Cardinality(es) -> es] :
        \A i, j \in 1..Cardinality(es) : i # j => order[i] # order[j]}

\* sorted, with e put behind the entries that do not compare greater
InsertEntry(sorted, e) ==
    LET k == Cardinality({i \in 1..Len(sorted) : ~NameLess(e.name, sorted[i].name)})
    IN  SubSeq(sorted, 1, k) \o <<e>> \o SubSeq(sorted, k + 1, Len(sorted))

\* Array.prototype.sort (stable) with the comparator of listDirectory, on the
\* entries in the order they were pushed
RECURSIVE SortEntries(_)
SortEntries(pushed) ==
    IF pushed = << >> THEN << >>
    ELSE InsertEntry(SortEntries(SubSeq(pushed, 1, Len(pushed) - 1)), pushed[Len(pushed)])

\* The entries of directory h of d, as listDirectory reports them
EntriesOf(d, h) ==
    {[name |-> q[Len(q)], type |-> IF d[q] = DirMark THEN "directory" ELSE "file"] :
        q \in Children(d, h)}

\* A bound adapter has settled listDirectory on the root or a valid path
Listed ==
    /\ last.op = "listDirectory"
    /\ directoryHandle
    /\ last.path = << >> \/ validatePath(last.path) = "OK"

\* The directories from the root to p that are not in d
MissingTo(d, p) == {h \in DirectoriesTo(p) : h \notin DOMAIN d}

\* A file of d stands on the way to p, before anything is missing
FileOnTheWay(d, p) ==
    \E h \in DirectoriesTo(p) :
        /\ IsFile(d, h)
        /\ \A g \in MissingTo(d, p) : Len(g) > Len(h)

\* C25: listDirectory returns exactly the entries of the addressed directory,
\* each once, ascending by name, in whatever order the handle enumerates
\* them; it fails with DIR_NOT_FOUND when the directory is missing and with
\* DIR_LIST_FAILED when it fails otherwise.
C25_ListDirectorySorted ==
    Listed =>
        IF last.faulted \/ FileOnTheWay(last.before, last.path)
        THEN last.code = "DIR_LIST_FAILED"
        ELSE IF MissingTo(last.before, last.path) # {}
        THEN last.code = "DIR_NOT_FOUND"
        ELSE /\ last.code = "OK"
             /\ {last.entries[i] : i \in 1..Len(last.entries)} =
                    EntriesOf(last.before, Loc(last.path))
             /\ Len(last.entries) = Cardinality(EntriesOf(last.before, Loc(last.path)))
             /\ \A i \in 1..(Len(last.entries) - 1) :
                    NameLess(last.entries[i].name, last.entries[i + 1].name)
             /\ \A pushed \in Enumerations(EntriesOf(last.before, Loc(last.path))) :
                    SortEntries(pushed) = last.entries

C25_Witness ==
    /\ Listed
    /\ last.code = "OK"
    /\ Len(last.entries) >= 2
    /\ \E pushed \in Enumerations(EntriesOf(last.before, Loc(last.path))) :
          pushed # last.entries
\* The path written with `/` only, and with `\` only
WithSlashes(p) == [i \in 1..Len(p) |-> IF p[i] = "\\" THEN "/" ELSE p[i]]

WithBackslashes(p) == [i \in 1..Len(p) |-> IF p[i] = "/" THEN "\\" ELSE p[i]]

\* The positions of p at which a run of characters other than separators starts
RunStarts(p) == {i \in 1..Len(p) : ~IsSeparator(p[i]) /\ (i = 1 \/ IsSeparator(p[i - 1]))}

\* The run of p that starts at position i
RunAt(p, i) ==
    SubSeq(p, i, CHOOSE j \in i..Len(p) :
                     /\ \A k \in i..j : ~IsSeparator(p[k])
                     /\ j = Len(p) \/ IsSeparator(p[j + 1]))

\* The start of run number k of p
RunStart(p, k) == CHOOSE i \in RunStarts(p) : Cardinality({j \in RunStarts(p) : j < i}) = k - 1

\* C26: parsePathSegments returns, for every string, the runs of characters
\* between separators, in their order and without the empty ones, and the
\* same list for the path written with `/` and the one written with `\`.
C26_SeparatorInsensitive ==
    parsed.done =>
        /\ Len(parsed.segments) = Cardinality(RunStarts(path))
        /\ \A k \in 1..Len(parsed.segments) : parsed.segments[k] = RunAt(path, RunStart(path, k))
        /\ \A k \in 1..Len(parsed.segments) : parsed.segments[k] # << >>
        /\ parsePathSegments(WithSlashes(path)) = parsed.segments
        /\ parsePathSegments(WithBackslashes(path)) = parsed.segments

C26_Witness ==
    /\ parsed.done
    /\ path = <<"a", "\\", "/", ".">>
    /\ parsed.segments = << <<"a">>, <<".">> >>
    /\ WithSlashes(path) # WithBackslashes(path)
\* The entries of the build whose processing has started and not finished lie
\* on one branch: each is the other, or an ancestor of the other
OnOneBranch(entries) ==
    \A x, y \in entries : IsPrefix(Loc(x), Loc(y)) \/ IsPrefix(Loc(y), Loc(x))

\* C27: within one sync at most one adapter call (listDirectory or readFile)
\* is in flight at any time, and an entry, with the whole subtree of a
\* directory entry, is finished before its next sibling is started: the
\* entries in progress are one entry and its ancestors, and the call in
\* flight works on the innermost of them.
C27_SequentialProcessing ==
    /\ Cardinality(walk.inflight) <= 1
    /\ \A call \in walk.inflight : call.fn \in {"listDirectory", "readFile"}
    /\ OnOneBranch(walk.open)
    /\ \A call \in walk.inflight : \A x \in walk.open : IsPrefix(Loc(x), Loc(call.path))

C27_Witness ==
    /\ walk.phase = "building"
    /\ Cardinality(walk.open) = 2
    /\ \E call \in walk.inflight : call.fn = "readFile" /\ call.path \in walk.open
    /\ walk.result.totalFiles >= 2
    /\ walk.result.syncedFiles >= 1
\* The files of the directory that the patterns of the walk do not exclude
FilesToSync ==
    {q \in DOMAIN disk : IsFile(disk, q) /\ ~ExcludedEntry(excludePatterns, q)}

\* Every listDirectory of the build has resolved so far
BuildListedAll ==
    /\ walk.phase \in {"building", "built"}
    /\ \A i \in 1..Len(walk.result.failedFiles) :
           ~IsDirectory(disk, Loc(walk.result.failedFiles[i]))

C29_LocalBeforeSandbox ==
    dual # NoDual =>
        /\ dual.sandbox # << >> => dual.localOk /\ dual.booted
        /\ ~dual.localOk =>
               /\ dual.sandbox = << >>
               /\ dual.code = "FILE_WRITE_FAILED"
               /\ dual.onError = 1

C29_Witness ==
    /\ dual # NoDual
    /\ dual.op = "deleteFile"
    /\ dual.booted
    /\ ~dual.localOk
    /\ dual.localFaulted
    /\ dual.sandbox = << >>
    /\ dual.code = "FILE_WRITE_FAILED"
ValidationCodes == {"INVALID_PATH", "ABSOLUTE_PATH", "PATH_TRAVERSAL"}

\* C30: an adapter operation given an invalid path rejects, and with the
\* validation code (INVALID_PATH, ABSOLUTE_PATH or PATH_TRAVERSAL), not with
\* the failure code of the operation.
C30_ValidationCodeSurfaced ==
    GivenInvalidPath => last.code \in ValidationCodes
\* The listing of the root rejected: the sync failed on its first handle call
RootListingRejected ==
    /\ synced.code \notin {"OK", "running", "none"}
    /\ Len(synced.calls) = 1
    /\ synced.faulted

\* C31: a syncToWebContainer call boots when needed, then traverses from the
\* root, then mounts: a call that resolves has invoked mount exactly once,
\* last, with the tree it has just built from the directory; a call that
\* fails in boot or at the root listing never invokes mount; and a call
\* whose boot fails makes no handle call at all.
C31_BootTraverseMount ==
    synced \notin {NoSync, Running} =>
        /\ synced.steps \in {<<"boot">>,
                             <<"buildFileSystemTree">>,
                             <<"boot", "buildFileSystemTree">>,
                             <<"buildFileSystemTree", "mount">>,
                             <<"boot", "buildFileSystemTree", "mount">>}
        /\ synced.code = "OK" =>
               /\ synced.steps[Len(synced.steps)] = "mount"
               /\ synced.mounts = <<synced.tree>>
               /\ ~synced.faulted => synced.tree = UnfailedTree
               /\ synced.faulted =>
                      synced.tree = WithoutEntry(UnfailedTree, Loc(synced.result.failedFiles[1]))
        /\ (BootRejected \/ RootListingRejected) => synced.mounts = << >>
        /\ BootRejected => synced.calls = << >> /\ synced.steps = <<"boot">>
        /\ synced.calls # << >> => "buildFileSystemTree" \in {synced.steps[i] : i \in 1..Len(synced.steps)}

C31_Witness ==
    /\ synced \notin {NoSync, Running}
    /\ previous # NoSync
    /\ synced.code = "OK"
    /\ synced.steps = <<"boot", "buildFileSystemTree", "mount">>
    /\ synced.mounts = <<synced.tree>>
    /\ Cardinality(DOMAIN synced.tree) >= 2
\* The directories above p, below the root
IntermediatesTo(p) == {h \in DirectoriesTo(p) : Len(h) < Len(Loc(p))}

\* A bound adapter has settled op on a valid path and no handle call was made
\* to fail
SettledCleanly(op) ==
    /\ last.op = op
    /\ directoryHandle
    /\ ~last.faulted
    /\ validatePath(last.path) = "OK"

\* A directory above p is missing, and no file stands on the way to it
MissingIntermediate(d, p) ==
    /\ \E h \in IntermediatesTo(p) : h \notin DOMAIN d
    /\ ~FileOnTheWay(d, p)

\* C32: readFile and listDirectory (the only adapter call of
\* countFilesToSync) never create, change or delete an entry, and fail with
\* FILE_NOT_FOUND / DIR_NOT_FOUND on a missing intermediate directory;
\* writeFile and createDirectory create every missing intermediate directory
\* of their path; no other operation but rename, which calls these two, adds
\* an entry.
C32_OnlyWritesCreate ==
    /\ last.op \in {"readFile", "listDirectory"} => disk = last.before
    /\ (SettledCleanly("readFile") /\ MissingIntermediate(last.before, last.path)) =>
           last.code = "FILE_NOT_FOUND"
    /\ (SettledCleanly("listDirectory") /\ MissingIntermediate(last.before, last.path)) =>
           last.code = "DIR_NOT_FOUND"
    /\ (/\ SettledCleanly("writeFile") \/ SettledCleanly("createDirectory")
        /\ \A h \in IntermediatesTo(last.path) : ~IsFile(last.before, h)) =>
           \A h \in IntermediatesTo(last.path) : IsDirectory(disk, h)
    /\ last.op \in {"deleteFile", "deleteDirectory"} => DOMAIN disk \subseteq DOMAIN last.before

C32_Witness ==
    /\ SettledCleanly("readFile")
    /\ MissingIntermediate(last.before, last.path)
    /\ last.code = "FILE_NOT_FOUND"
    /\ disk = last.before
    /\ DOMAIN disk # {}
\* The location an entry q below old has once old has been renamed to new
MovedTo(old, new, q) == new \o SubSeq(q, Len(old) + 1, Len(q))

\* C33: after rename(oldPath, newPath) has returned successfully everything
\* that was at oldPath exists with the same content at newPath, also when the
\* two paths name the same location.
C33_RenameKeepsContent ==
    (last.op = "rename" /\ last.code = "OK") =>
        \A q \in DOMAIN last.before :
            IsPrefix(Loc(last.path), q) =>
                LET m == MovedTo(Loc(last.path), Loc(last.newPath), q)
                IN  m \in DOMAIN disk /\ disk[m] = last.before[q]
\* C34: while a syncToWebContainer call of the SyncManager is in flight,
\* between its entry and its return or throw, the status is 'syncing', also
\* when two calls overlap.
C34_SyncingWhileInFlight == CallsInFlight(overlap) # {} => status = "syncing"

\* One call alone: the status is 'syncing' from its entry to its return
OneCallStaysSyncing ==
    (CallsInFlight(overlap) # {} /\ \A k \in 1..MaxOverlap :
         ~InFlight(overlap.syncs[k]) => overlap.syncs[k].pc = "idle") => status = "syncing"
\* C35: a writeFile(p, c) that is issued and completes while a full sync is
\* in flight is not undone by that sync: once both have completed the
\* WebContainer holds c at p.
C35_SaveSurvivesSync ==
    \A k \in 1..MaxOverlap :
        (/\ overlap.write.pc = "returned"
         /\ k \in overlap.write.within
         /\ overlap.syncs[k].pc = "returned"
         /\ CallsInFlight(overlap) = {}) =>
            /\ parsePathSegments(overlap.write.path) \in DOMAIN overlap.sandbox
            /\ overlap.sandbox[parsePathSegments(overlap.write.path)] = overlap.write.content
EntriesToSync == {q \in DOMAIN disk : ~ExcludedEntry(excludePatterns, q)}

\* The counters of the SyncResult between two awaits of the tree build
CountersConsistent ==
    LET result == walk.result
    IN  /\ result.syncedFiles + Len(result.failedFiles) <= result.totalFiles
        /\ result.totalFiles <= Cardinality(EntriesToSync)
        /\ \A i, j \in 1..Len(result.failedFiles) :
               result.failedFiles[i] = result.failedFiles[j] => i = j
        /\ \A i \in 1..Len(result.failedFiles) :
               Loc(result.failedFiles[i]) \in EntriesToSync

\* C37: throughout a full sync totalFiles and syncedFiles never decrease,
\* syncedFiles + failedFiles.length <= totalFiles once an entry has been
\* processed, totalFiles counts no excluded entry, and no path occurs twice
\* in failedFiles.
C37_CountersThroughout ==
    /\ []CountersConsistent
    /\ [][/\ walk'.result.totalFiles >= walk.result.totalFiles
          /\ walk'.result.syncedFiles >= walk.result.syncedFiles
          /\ Len(walk'.result.failedFiles) >= Len(walk.result.failedFiles)]_vars

\* A build over a directory with excluded entries that has synced one file
\* and failed on another
C37_Witness ==
    /\ walk.phase = "built"
    /\ walk.result.syncedFiles >= 1
    /\ walk.result.failedFiles # << >>
    /\ walk.result.totalFiles >= 2
    /\ EntriesToSync # DOMAIN disk
\* The entry a path names in the WebContainer's file system: its segments
\* between `/`, empty ones dropped
SandboxSegments(p) == SelectSeq(SplitSlash(p), NonEmpty)

\* C38: after a successful SyncManager.writeFile(path, content) with the
\* WebContainer booted, the file is written in the WebContainer at the
\* location the local adapter wrote it, below the same parent directory, also
\* for paths the local adapter normalizes.
C38_SameLogicalLocation ==
    (dual.op = "writeFile" /\ dual.code = "OK" /\ dual.booted) =>
        /\ IsFile(disk, Loc(dual.path)) /\ disk[Loc(dual.path)] = dual.content
        /\ dual.sandbox # << >>
        /\ LET w == dual.sandbox[Len(dual.sandbox)]
           IN  /\ w.fn = "writeFile" /\ w.arg = dual.content
               /\ SandboxSegments(w.path) = Loc(dual.path)
        /\ Len(Loc(dual.path)) > 1 =>
               /\ dual.sandbox[1].fn = "mkdir"
               /\ SandboxSegments(dual.sandbox[1].path) =
                      SubSeq(Loc(dual.path), 1, Len(Loc(dual.path)) - 1)
\* The failures of the settled sync: the entries it could not read or list,
\* and the failure that made it reject
FailuresOfSync ==
    IF RootListingRejected THEN 1
    ELSE Len(synced.result.failedFiles) + (IF synced.code = "OK" THEN 0 ELSE 1)

\* C39: a full sync invokes onError once for each failure: once per failed
\* file read and per failed directory listing, and once when it fails
\* fatally; no failure is reported twice.
C39_OnErrorOncePerFailure ==
    synced \notin {NoSync, Running} => synced.onError = FailuresOfSync
=============================================================================
